---------------------------- MODULE Spec2Model ----------------------------
(***************************************************************************)
(* A model of pysui's key, keypair, signing and multisig code              *)
(* (pysui/sui/sui_crypto.py).                                              *)
(*                                                                         *)
(* Byte buffers are sequences of 0..255, base64 text is a sequence of      *)
(* one-character strings.  An object is a record of its fields.  Every     *)
(* operation of the module is one action: it draws its arguments from a    *)
(* small input set, runs the whole call and leaves what the call did in    *)
(* `last` (the call's name, its arguments, the exception it raised or      *)
(* "" and the value it returned).                                          *)
(***************************************************************************)
EXTENDS Integers, Sequences, FiniteSets, TLC

VARIABLES
    kp,       \* the keypair object the caller holds (NoObject before one is built)
    msig,     \* the MultiSigPublicKey object the caller holds (NoObject before)
    weights,  \* the module-level name `weights` of sui_crypto.py (unbound on import)
    TypeTag_enums,  \* the class attribute TypeTag._enums of bcs.py
    stdout,   \* the lines print has written to the standard output
    last      \* the last call: [op, arg, err, val]

vars == <<kp, msig, weights, TypeTag_enums, stdout, last>>

\* Bounds of the model (the sizes of the input sets).
MaxTxLen == 2
MaxKeys == 3
MaxPrinted == 1

--------------------------------------------------------------------------
(* Signature schemes and key lengths                                       *)

ED25519 == 0
SECP256K1 == 1
SECP256R1 == 2
MULTISIG == 3

KeyPairSchemes == {ED25519, SECP256K1, SECP256R1}

SUI_KEYPAIR_LEN == 44
ED25519_PUBLICKEY_BYTES_LEN == 32
ED25519_PRIVATEKEY_BYTES_LEN == 32
ED25519_KEYPAIR_BYTES_LEN == 32
SECP256K1_PUBLICKEY_BYTES_LEN == 33
SECP256K1_PRIVATEKEY_BYTES_LEN == 32
SECP256K1_KEYPAIR_BYTES_LEN == 32
SECP256R1_PUBLICKEY_BYTES_LEN == 33
SECP256R1_PRIVATEKEY_BYTES_LEN == 32
SECP256R1_KEYPAIR_BYTES_LEN == 32

NoObject == [none |-> TRUE]

\* A buffer of n bytes, all b.
Fill(b, n) == IF n = 0 THEN <<>> ELSE [i \in 1..n |-> b]

\* The bytes b, b+1, ... (mod 256), n of them.
Ramp(b, n) == IF n = 0 THEN <<>> ELSE [i \in 1..n |-> (b + i - 1) % 256]

RECURSIVE SumBytes(_)
SumBytes(s) ==
    IF s = <<>> THEN 0
    ELSE IF Len(s) = 1 THEN s[1] % 256
    ELSE LET half == Len(s) \div 2 IN
         (SumBytes(SubSeq(s, 1, half)) + SumBytes(SubSeq(s, half + 1, Len(s)))) % 256

\* Python's s[1:].
Rest(s) == IF s = <<>> THEN <<>> ELSE Tail(s)

\* Big-endian comparison of two byte buffers of the same length: a < b.
\* The first byte that differs decides.
BytesLess(a, b) ==
    \E i \in 1..Len(a) :
        /\ \A j \in 1..(i - 1) : a[j] = b[j]
        /\ a[i] < b[i]

--------------------------------------------------------------------------
(* base64 (the standard library's b64encode and non-strict b64decode)      *)

Alphabet ==
    << "A","B","C","D","E","F","G","H","I","J","K","L","M","N","O","P",
       "Q","R","S","T","U","V","W","X","Y","Z","a","b","c","d","e","f",
       "g","h","i","j","k","l","m","n","o","p","q","r","s","t","u","v",
       "w","x","y","z","0","1","2","3","4","5","6","7","8","9","+","/" >>

AlphabetSet == {Alphabet[i] : i \in 1..64}

Sextet == [c \in AlphabetSet |-> (CHOOSE i \in 1..64 : Alphabet[i] = c) - 1]

B64Char(v) == Alphabet[v + 1]

\* binascii.b2a_base64: three bytes give four characters, the tail is padded.
RECURSIVE B64Encode(_)
B64Encode(b) ==
    IF b = <<>> THEN <<>>
    ELSE IF Len(b) = 1 THEN
        << B64Char(b[1] \div 4), B64Char((b[1] % 4) * 16), "=", "=" >>
    ELSE IF Len(b) = 2 THEN
        << B64Char(b[1] \div 4),
           B64Char((b[1] % 4) * 16 + b[2] \div 16),
           B64Char((b[2] % 16) * 4), "=" >>
    ELSE IF Len(b) = 3 THEN
        << B64Char(b[1] \div 4),
           B64Char((b[1] % 4) * 16 + b[2] \div 16),
           B64Char((b[2] % 16) * 4 + b[3] \div 64),
           B64Char(b[3] % 64) >>
    ELSE \* the groups of three bytes are encoded independently
        LET split == 3 * (((Len(b) + 2) \div 3) \div 2) IN
        B64Encode(SubSeq(b, 1, split)) \o B64Encode(SubSeq(b, split + 1, Len(b)))

\* binascii.a2b_base64, strict_mode off: the scan over the characters with
\* its quad position, its left-over bits, its count of pad characters and
\* the bytes written; characters outside the alphabet are skipped, a pad
\* that completes a quad ends the scan, an incomplete quad at the end is
\* binascii.Error.
B64ScanState(quad, left, pads, out, done) ==
    [quad |-> quad, left |-> left, pads |-> pads, out |-> out, done |-> done]

\* One character of the scan.
B64Step(st, c) ==
    IF c = "=" THEN
        IF st.quad >= 2 /\ st.quad + st.pads + 1 >= 4
        THEN B64ScanState(st.quad, st.left, st.pads, st.out, TRUE)
        ELSE B64ScanState(st.quad, st.left,
                          IF st.quad >= 2 THEN st.pads + 1 ELSE st.pads,
                          st.out, FALSE)
    ELSE IF c \notin AlphabetSet THEN st
    ELSE LET v == Sextet[c] IN
        CASE st.quad = 0 -> B64ScanState(1, v, 0, st.out, FALSE)
          [] st.quad = 1 -> B64ScanState(2, v % 16, 0,
                                Append(st.out, st.left * 4 + v \div 16), FALSE)
          [] st.quad = 2 -> B64ScanState(3, v % 4, 0,
                                Append(st.out, st.left * 16 + v \div 4), FALSE)
          [] OTHER       -> B64ScanState(0, 0, 0,
                                Append(st.out, st.left * 64 + v), FALSE)

\* The scan over the characters lo..hi of s, from the state st.
RECURSIVE B64Scan(_, _, _, _)
B64Scan(s, lo, hi, st) ==
    IF lo > hi \/ st.done THEN st
    ELSE IF lo = hi THEN B64Step(st, s[lo])
    ELSE LET mid == (lo + hi) \div 2
             first == B64Scan(s, lo, mid, st)
         IN  IF first.done THEN first ELSE B64Scan(s, mid + 1, hi, first)

B64Decode(s) ==
    LET end == B64Scan(s, 1, Len(s), B64ScanState(0, 0, 0, <<>>, FALSE)) IN
    IF end.done THEN [err |-> "", val |-> end.out]
    ELSE IF end.quad # 0 THEN [err |-> "binascii.Error", val |-> <<>>]
    ELSE [err |-> "", val |-> end.out]

--------------------------------------------------------------------------
(* Results of a call: the exception it raised (or "") and its value        *)

Raise(e) == [err |-> e, val |-> NoObject]
Return(v) == [err |-> "", val |-> v]

--------------------------------------------------------------------------
(* The cryptographic libraries (nacl, ecdsa, secp256k1).  The curve        *)
(* arithmetic is replaced by fixed byte mixes: what the model keeps is     *)
(* that each is a function of its arguments, the lengths of what it        *)
(* returns, and the scalar range an EC private key must lie in.            *)

\* The order of the NIST P-256 group (_s_max), big-endian.
CurveOrderR1 ==
    << 255, 255, 255, 255, 0, 0, 0, 0, 255, 255, 255, 255, 255, 255, 255, 255,
       188, 230, 250, 173, 167, 23, 158, 132, 243, 185, 202, 194, 252, 99, 37, 81 >>

\* The order of the secp256k1 group, big-endian.
CurveOrderK1 ==
    << 255, 255, 255, 255, 255, 255, 255, 255, 255, 255, 255, 255, 255, 255, 255, 254,
       186, 174, 220, 230, 175, 72, 160, 59, 191, 210, 94, 140, 208, 54, 65, 65 >>

\* floor(order / 2) of secp256k1, big-endian.
HalfOrderK1 ==
    << 127, 255, 255, 255, 255, 255, 255, 255, 255, 255, 255, 255, 255, 255, 255, 255,
       93, 87, 110, 115, 87, 164, 80, 29, 223, 233, 47, 70, 104, 27, 32, 160 >>

\* floor(order / 2) of NIST P-256, big-endian.
HalfOrderR1 ==
    << 127, 255, 255, 255, 128, 0, 0, 0, 127, 255, 255, 255, 255, 255, 255, 255,
       222, 115, 125, 86, 211, 139, 207, 66, 121, 220, 229, 97, 126, 49, 146, 168 >>

\* _s_max / 2 as Python computes it: a true division, so the double nearest
\* to the order (0xFFFFFFFF * 2^224) halved, an integer value all the same.
SMaxHalfFloat == << 127, 255, 255, 255, 128 >> \o Fill(0, 27)

\* a - b on big-endian buffers of one length, a >= b.
\* The borrow out of byte i: the bytes i..n of a are less than those of b.
BytesSubBorrow(a, b, i) ==
    IF i > Len(a) THEN 0
    ELSE IF BytesLess(SubSeq(a, i, Len(a)), SubSeq(b, i, Len(b))) THEN 1 ELSE 0

BytesSub(a, b) ==
    [i \in 1..Len(a) |->
        LET d == a[i] - b[i] - BytesSubBorrow(a, b, i + 1)
        IN  IF d < 0 THEN d + 256 ELSE d]

\* An EC private key is a scalar k with 1 <= k < order.
ValidScalar(order, b) == b # Fill(0, Len(b)) /\ BytesLess(b, order)

\* nacl: SigningKey(seed).verify_key, 32 bytes.
Ed25519VerifyKey(seed) == [i \in 1..32 |-> (seed[i] * 5 + i) % 256]

\* ecdsa / secp256k1: the compressed public point of a scalar, 33 bytes.
EcCompressedPublicKey(scheme, sk) ==
    << 2 + (sk[32] % 2) >> \o [i \in 1..32 |-> (sk[i] * 3 + scheme + i) % 256]

\* The (r, s) or (R, S) halves a signing primitive computes, 32 bytes each.
RawSignature(scheme, sk, data) ==
    LET m == SumBytes(data) + Len(data)
    IN  [r |-> [i \in 1..32 |-> (sk[i] + 3 * m + scheme + i) % 256],
         s |-> [i \in 1..32 |-> (sk[33 - i] * 7 + 11 * m + 5 * i) % 256]]

\* An ECDSA s lies in 1..order-1.
EcRawSignature(scheme, order, sk, data) ==
    LET raw == RawSignature(scheme, sk, data)
    IN  IF ValidScalar(order, raw.s) THEN raw
        ELSE [raw EXCEPT !.s = [raw.s EXCEPT ![1] = 127]]

--------------------------------------------------------------------------
(* Public and private keys                                                 *)

\* PublicKey.scheme_and_key(): the scheme tag byte, then the key's bytes.
scheme_and_key(key) == <<key.scheme>> \o key.key_bytes

SuiPublicKeyED25519(indata) ==
    IF Len(indata) # ED25519_PUBLICKEY_BYTES_LEN THEN Raise("SuiInvalidKeyPair")
    ELSE Return([cls |-> "SuiPublicKeyED25519", scheme |-> ED25519,
                 key_bytes |-> indata])

\* The SECP256K1 public key tested against the ED25519 length.
SuiPublicKeySECP256K1_EdLength(indata) ==
    IF Len(indata) # ED25519_PUBLICKEY_BYTES_LEN THEN Raise("SuiInvalidKeyPair")
    ELSE Return([cls |-> "SuiPublicKeySECP256K1", scheme |-> SECP256K1,
                 key_bytes |-> indata])

\* The EC libraries accept a compressed point only with prefix 2 or 3 (that
\* x lies on the curve is not modelled).
SuiPublicKeySECP256K1(indata) ==
    IF Len(indata) # SECP256K1_PUBLICKEY_BYTES_LEN THEN Raise("SuiInvalidKeyPair")
    ELSE IF indata[1] \notin {2, 3} THEN Raise("LibraryError")
    ELSE Return([cls |-> "SuiPublicKeySECP256K1", scheme |-> SECP256K1,
                 key_bytes |-> indata])

SuiPublicKeySECP256R1(indata) ==
    IF Len(indata) # SECP256R1_PUBLICKEY_BYTES_LEN THEN Raise("SuiInvalidKeyPair")
    ELSE IF indata[1] \notin {2, 3} THEN Raise("LibraryError")
    ELSE Return([cls |-> "SuiPublicKeySECP256R1", scheme |-> SECP256R1,
                 key_bytes |-> indata])

\* The signing key is built from the base64 text of the bytes.
SuiPrivateKeyED25519(indata) ==
    IF Len(indata) # ED25519_PRIVATEKEY_BYTES_LEN THEN Raise("SuiInvalidKeyPair")
    ELSE Return([cls |-> "SuiPrivateKeyED25519", scheme |-> ED25519,
                 key_bytes |-> indata,
                 signing_key |-> B64Decode(B64Encode(indata)).val])

SuiPrivateKeySECP256K1(indata) ==
    IF Len(indata) # SECP256K1_PRIVATEKEY_BYTES_LEN THEN Raise("SuiInvalidKeyPair")
    ELSE IF ~ValidScalar(CurveOrderK1, indata) THEN Raise("LibraryError")
    ELSE Return([cls |-> "SuiPrivateKeySECP256K1", scheme |-> SECP256K1,
                 key_bytes |-> indata, signing_key |-> indata])

SuiPrivateKeySECP256R1(indata) ==
    IF Len(indata) # SECP256R1_PRIVATEKEY_BYTES_LEN THEN Raise("SuiInvalidKeyPair")
    ELSE IF ~ValidScalar(CurveOrderR1, indata) THEN Raise("LibraryError")
    ELSE Return([cls |-> "SuiPrivateKeySECP256R1", scheme |-> SECP256R1,
                 key_bytes |-> indata, signing_key |-> indata])

\* The constructor of the public / private key class of a scheme.
PublicKeyClass(scheme, indata) ==
    CASE scheme = ED25519   -> SuiPublicKeyED25519(indata)
      [] scheme = SECP256K1 -> SuiPublicKeySECP256K1(indata)
      [] scheme = SECP256R1 -> SuiPublicKeySECP256R1(indata)

PrivateKeyClass(scheme, indata) ==
    CASE scheme = ED25519   -> SuiPrivateKeyED25519(indata)
      [] scheme = SECP256K1 -> SuiPrivateKeySECP256K1(indata)
      [] scheme = SECP256R1 -> SuiPrivateKeySECP256R1(indata)

--------------------------------------------------------------------------
(* Signing                                                                 *)

SuiPrivateKeyED25519_sign(self, data) ==
    LET sig == RawSignature(ED25519, self.signing_key, data) IN sig.r \o sig.s

\* libsecp256k1 signs with the low s (ecdsa_sign normalizes a nonce's s
\* above half the order to order - s); the compact form is r then s.
ecdsa_serialize_compact(r_int, s_int) ==
    r_int \o (IF BytesLess(HalfOrderK1, s_int)
              THEN BytesSub(CurveOrderK1, s_int) ELSE s_int)

SuiPrivateKeySECP256K1_sign(self, data) ==
    LET sig == EcRawSignature(SECP256K1, CurveOrderK1, self.signing_key, data)
    IN  ecdsa_serialize_compact(sig.r, sig.s)

\* The sigencode handed to sign_deterministic: "s adjustment to go small".
_sigencode_string(r_int, s_int) ==
    LET s_adj == IF BytesLess(SMaxHalfFloat, s_int)
                 THEN BytesSub(CurveOrderR1, s_int) ELSE s_int
    IN  r_int \o s_adj

SuiPrivateKeySECP256R1_sign(self, data) ==
    LET sig == EcRawSignature(SECP256R1, CurveOrderR1, self.signing_key, data)
    IN  _sigencode_string(sig.r, sig.s)

\* self.sign(data, recovery_id), by the class of self.
PrivateKey_sign(self, data) ==
    CASE self.cls = "SuiPrivateKeyED25519"   -> SuiPrivateKeyED25519_sign(self, data)
      [] self.cls = "SuiPrivateKeySECP256K1" -> SuiPrivateKeySECP256K1_sign(self, data)
      [] self.cls = "SuiPrivateKeySECP256R1" -> SuiPrivateKeySECP256R1_sign(self, data)

IntentHeader == <<0, 0, 0>>

\* sign_secure with the public key ahead of the signature.
sign_secure_KeyFirst(self, public_key, tx_data) ==
    LET dec_tx == B64Decode(tx_data) IN
    IF dec_tx.err # "" THEN Raise(dec_tx.err)
    ELSE Return(<<self.scheme>> \o public_key.key_bytes
                \o PrivateKey_sign(self, IntentHeader \o dec_tx.val))

sign_secure(self, public_key, tx_data) ==
    LET dec_tx == B64Decode(tx_data) IN
    IF dec_tx.err # "" THEN Raise(dec_tx.err)
    ELSE LET indata == IntentHeader \o dec_tx.val
             sig_bytes == PrivateKey_sign(self, indata)
         IN  Return(<<self.scheme>> \o sig_bytes \o public_key.key_bytes)

--------------------------------------------------------------------------
(* Keypairs                                                                *)

\* A keypair class's __init__: the private key from the secret bytes, the
\* public key from the private key's signing key.
SuiKeyPairSECP256R1(secret_bytes) ==
    LET sk == SuiPrivateKeySECP256R1(secret_bytes) IN
    IF sk.err # "" THEN Raise(sk.err)
    ELSE LET pk == SuiPublicKeySECP256R1(
                       EcCompressedPublicKey(SECP256R1, sk.val.signing_key)) IN
         IF pk.err # "" THEN Raise(pk.err)
         ELSE Return([cls |-> "SuiKeyPairSECP256R1", scheme |-> SECP256R1,
                      private_key |-> sk.val, public_key |-> pk.val])

SuiKeyPairED25519(secret_bytes) ==
    LET sk == SuiPrivateKeyED25519(secret_bytes) IN
    IF sk.err # "" THEN Raise(sk.err)
    ELSE LET pk == SuiPublicKeyED25519(Ed25519VerifyKey(sk.val.signing_key)) IN
         IF pk.err # "" THEN Raise(pk.err)
         ELSE Return([cls |-> "SuiKeyPairED25519", scheme |-> ED25519,
                      private_key |-> sk.val, public_key |-> pk.val])

\* The SECP256K1 keypair with its public key built from the secret bytes
\* themselves (a point prefix put before them).
SuiKeyPairSECP256K1_PublicFromBytes(secret_bytes) ==
    LET sk == SuiPrivateKeySECP256K1(secret_bytes) IN
    IF sk.err # "" THEN Raise(sk.err)
    ELSE LET pk == SuiPublicKeySECP256K1(<<2>> \o secret_bytes) IN
         IF pk.err # "" THEN Raise(pk.err)
         ELSE Return([cls |-> "SuiKeyPairSECP256K1", scheme |-> SECP256K1,
                      private_key |-> sk.val, public_key |-> pk.val])

SuiKeyPairSECP256K1(secret_bytes) ==
    LET sk == SuiPrivateKeySECP256K1(secret_bytes) IN
    IF sk.err # "" THEN Raise(sk.err)
    ELSE LET pk == SuiPublicKeySECP256K1(
                       EcCompressedPublicKey(SECP256K1, sk.val.signing_key)) IN
         IF pk.err # "" THEN Raise(pk.err)
         ELSE Return([cls |-> "SuiKeyPairSECP256K1", scheme |-> SECP256K1,
                      private_key |-> sk.val, public_key |-> pk.val])

SuiKeyPairSECP256R1_from_bytes(indata) ==
    IF Len(indata) # SECP256R1_KEYPAIR_BYTES_LEN THEN Raise("SuiInvalidKeyPair")
    ELSE SuiKeyPairSECP256R1(indata)

SuiKeyPairED25519_from_bytes(indata) ==
    IF Len(indata) # ED25519_KEYPAIR_BYTES_LEN THEN Raise("SuiInvalidKeyPair")
    ELSE SuiKeyPairED25519(indata)

SuiKeyPairSECP256K1_from_bytes(indata) ==
    IF Len(indata) # SECP256K1_KEYPAIR_BYTES_LEN THEN Raise("SuiInvalidKeyPair")
    ELSE SuiKeyPairSECP256K1(indata)

\* from_b64 of each class: the text's length, the decoding, the tag byte.
\* (base_decode[0] of an empty decoding is IndexError.)
SuiKeyPairSECP256R1_from_b64(indata) ==
    IF Len(indata) # SUI_KEYPAIR_LEN THEN Raise("SuiInvalidKeyPair")
    ELSE LET base_decode == B64Decode(indata) IN
         IF base_decode.err # "" THEN Raise(base_decode.err)
         ELSE IF base_decode.val = <<>> THEN Raise("IndexError")
         ELSE IF base_decode.val[1] = SECP256R1
              THEN SuiKeyPairED25519_from_bytes(Rest(base_decode.val))
         ELSE Raise("SuiInvalidKeyPair")

SuiKeyPairED25519_from_b64(indata) ==
    IF Len(indata) # SUI_KEYPAIR_LEN THEN Raise("SuiInvalidKeyPair")
    ELSE LET base_decode == B64Decode(indata) IN
         IF base_decode.err # "" THEN Raise(base_decode.err)
         ELSE IF base_decode.val = <<>> THEN Raise("IndexError")
         ELSE IF base_decode.val[1] = ED25519
              THEN SuiKeyPairED25519_from_bytes(Rest(base_decode.val))
         ELSE Raise("SuiInvalidKeyPair")

SuiKeyPairSECP256K1_from_b64(indata) ==
    IF Len(indata) # SUI_KEYPAIR_LEN THEN Raise("SuiInvalidKeyPair")
    ELSE LET base_decode == B64Decode(indata) IN
         IF base_decode.err # "" THEN Raise(base_decode.err)
         ELSE IF base_decode.val = <<>> THEN Raise("IndexError")
         ELSE IF base_decode.val[1] = SECP256K1
              THEN SuiKeyPairSECP256K1_from_bytes(Rest(base_decode.val))
         ELSE Raise("SuiInvalidKeyPair")

\* The three classmethods and the constructor, by the class they are called on.
KeyPairClass(scheme, secret_bytes) ==
    CASE scheme = ED25519   -> SuiKeyPairED25519(secret_bytes)
      [] scheme = SECP256K1 -> SuiKeyPairSECP256K1(secret_bytes)
      [] scheme = SECP256R1 -> SuiKeyPairSECP256R1(secret_bytes)

KeyPairClass_from_bytes(scheme, indata) ==
    CASE scheme = ED25519   -> SuiKeyPairED25519_from_bytes(indata)
      [] scheme = SECP256K1 -> SuiKeyPairSECP256K1_from_bytes(indata)
      [] scheme = SECP256R1 -> SuiKeyPairSECP256R1_from_bytes(indata)

KeyPairClass_from_b64(scheme, indata) ==
    CASE scheme = ED25519   -> SuiKeyPairED25519_from_b64(indata)
      [] scheme = SECP256K1 -> SuiKeyPairSECP256K1_from_b64(indata)
      [] scheme = SECP256R1 -> SuiKeyPairSECP256R1_from_b64(indata)

\* SuiKeyPair.new_sign_secure: the base64 text of sign_secure's bytes.
new_sign_secure(self, tx_data) ==
    LET sig == sign_secure(self.private_key, self.public_key, tx_data) IN
    IF sig.err # "" THEN Raise(sig.err) ELSE Return(B64Encode(sig.val))

\* serialize writing the public key's bytes, as to_bytes does first.
serialize_PublicBytes(self) ==
    B64Encode(<<self.scheme>> \o self.public_key.key_bytes)

\* SuiKeyPair.serialize: the keystring.
serialize(self) == B64Encode(<<self.scheme>> \o self.private_key.key_bytes)

\* SuiKeyPair.to_bytes.
to_bytes(self) ==
    <<self.scheme>> \o self.public_key.key_bytes \o self.private_key.key_bytes

\* keypair_from_keystring without its length test.
KeystringLengthOk_Dropped(keystring) == TRUE

\* The length test that opens keypair_from_keystring.
KeystringLengthOk(keystring) == Len(keystring) = SUI_KEYPAIR_LEN

\* The match with the SECP256R1 case sent to the ED25519 class.
KeystringDispatch_R1AsEd(addy_bytes) ==
    CASE addy_bytes[1] = ED25519   -> SuiKeyPairED25519_from_bytes(Rest(addy_bytes))
      [] addy_bytes[1] = SECP256K1 -> SuiKeyPairSECP256K1_from_bytes(Rest(addy_bytes))
      [] addy_bytes[1] = SECP256R1 -> SuiKeyPairED25519_from_bytes(Rest(addy_bytes))
      [] OTHER -> Raise("NotImplementedError")

\* The match on the tag byte in keypair_from_keystring.
KeystringDispatch(addy_bytes) ==
    CASE addy_bytes[1] = ED25519   -> SuiKeyPairED25519_from_bytes(Rest(addy_bytes))
      [] addy_bytes[1] = SECP256K1 -> SuiKeyPairSECP256K1_from_bytes(Rest(addy_bytes))
      [] addy_bytes[1] = SECP256R1 -> SuiKeyPairSECP256R1_from_bytes(Rest(addy_bytes))
      [] OTHER -> Raise("NotImplementedError")

keypair_from_keystring(keystring) ==
    IF ~KeystringLengthOk(keystring) THEN Raise("SuiInvalidKeystringLength")
    ELSE LET addy_bytes == B64Decode(keystring) IN
         IF addy_bytes.err # "" THEN Raise(addy_bytes.err)
         ELSE IF addy_bytes.val = <<>> THEN Raise("IndexError")
         ELSE KeystringDispatch(addy_bytes.val)

--------------------------------------------------------------------------
(* MultiSigPublicKey and its address                                       *)

_KEY_COUNT_MAX == 10

\* Python's list(zip(a, b)): pairs up to the shorter of the two.
RECURSIVE Zip(_, _)
Zip(a, b) ==
    IF a = <<>> \/ b = <<>> THEN <<>>
    ELSE << <<a[1], b[1]>> >> \o Zip(Tail(a), Tail(b))

\* MultiSigPublicKey.__init__, with the test of its first line.
MultiSigAccepts(pk_keys, pk_weights, threshold) ==
    /\ Len(pk_keys) <= _KEY_COUNT_MAX
    /\ Len(pk_keys) = Len(pk_weights)
    /\ threshold <= Len(pk_keys)

\* The name `weights` in the constructor's body is the module's: global is
\* its binding when the constructor runs.
MultiSigPublicKey(pk_keys, pk_weights, threshold, global) ==
    IF MultiSigAccepts(pk_keys, pk_weights, threshold) THEN
        IF ~global.bound THEN Raise("NameError")
        ELSE Return([scheme |-> MULTISIG, threshold |-> threshold,
                     key_map |-> Zip(pk_keys, global.val)])
    ELSE Raise("ValueError")

\* hashlib's sha3_256 over a message: the 32-byte digest is kept as the
\* message it is the digest of (the hash is taken to be injective).
Sha3_256(message) == [digest_of |-> message, len |-> 32]

\* digest[:n]
DigestPrefix(digest, n) ==
    [digest EXCEPT !.len = IF digest.len < n THEN digest.len ELSE n]

\* binascii.hexlify: two lowercase hex characters for each byte.
Hexlify(digest) == [hex_of |-> digest, chars |-> 2 * digest.len, case |-> "lower"]

\* int.to_bytes(1, "little") raises OverflowError outside 0..255.
FitsByte(n) == n \in 0..255

\* The loop without the update that feeds the key.
RECURSIVE FeedKeyMap_NoKey(_, _)
FeedKeyMap_NoKey(key_map, fed) ==
    IF key_map = <<>> THEN [err |-> "", fed |-> fed]
    ELSE IF ~FitsByte(key_map[1][2]) THEN [err |-> "OverflowError", fed |-> fed]
    ELSE FeedKeyMap_NoKey(Tail(key_map), fed \o <<key_map[1][2]>>)

\* The loop of _msta over key_map: what it has fed the hash when it ends or
\* raises.
RECURSIVE FeedKeyMap(_, _)
FeedKeyMap(key_map, fed) ==
    IF key_map = <<>> THEN [err |-> "", fed |-> fed]
    ELSE LET p_key == key_map[1][1]
             p_w == key_map[1][2]
             with_key == fed \o scheme_and_key(p_key)
         IN  IF ~FitsByte(p_w) THEN [err |-> "OverflowError", fed |-> with_key]
             ELSE FeedKeyMap(Tail(key_map), with_key \o <<p_w>>)

\* _msta without the update that feeds the threshold.
_msta_NoThreshold(m) ==
    LET loop == FeedKeyMap(m.key_map, <<m.scheme>>) IN
    IF loop.err # ""
    THEN [err |-> loop.err, val |-> NoObject, fed |-> loop.fed, printed |-> <<>>]
    ELSE LET hash_bytes == DigestPrefix(Sha3_256(loop.fed), 20) IN
         [err |-> "", fed |-> loop.fed, val |-> Hexlify(hash_bytes),
          printed |-> << <<"hash leng", hash_bytes.len>> >>]

\* _msta(msig): the bytes fed to the hash, the hex text returned, and the
\* line print writes before the return ("hash leng" and the digest's length).
_msta(m) ==
    LET head == <<m.scheme>> IN
    IF ~FitsByte(m.threshold)
    THEN [err |-> "OverflowError", val |-> NoObject, fed |-> head,
          printed |-> <<>>]
    ELSE LET loop == FeedKeyMap(m.key_map, head \o <<m.threshold>>) IN
         IF loop.err # ""
         THEN [err |-> loop.err, val |-> NoObject, fed |-> loop.fed,
               printed |-> <<>>]
         ELSE LET hash_bytes == DigestPrefix(Sha3_256(loop.fed), 20) IN
              [err |-> "", fed |-> loop.fed, val |-> Hexlify(hash_bytes),
               printed |-> << <<"hash leng", hash_bytes.len>> >>]

--------------------------------------------------------------------------
(* Key generation from a mnemonic phrase.  The phrase validator, the phrase *)
(* generator, the seed generator and the path derivation are bip_utils';    *)
(* prv_key is the private key the derivation answers with.                  *)

ValidMnemonics == {"twelve valid words", "twenty-four valid words"}

\* Bip39MnemonicGenerator().FromWordsNumber(n).ToStr()
GeneratedMnemonic(words) ==
    IF words = 12 THEN "twelve valid words" ELSE "twenty-four valid words"

\* _valid_mnemonic: a supplied phrase is validated, a missing one generated.
_valid_mnemonic(key_type, mnemonics) ==
    IF mnemonics # "" THEN
        IF mnemonics \in ValidMnemonics THEN Return(mnemonics)
        ELSE Raise("ValueError")
    ELSE CASE key_type \in {ED25519, SECP256K1} -> Return(GeneratedMnemonic(12))
           [] key_type = SECP256R1 -> Return(GeneratedMnemonic(24))
           [] OTHER -> Raise("ValueError")

ProviderCalls == <<"Bip39SeedGenerator.Generate", "FromSeedAndPath">>

\* What a generator hands back: the phrase and the keypair, and the provider
\* calls it made on the way.
Generated(mnemonic_phrase, keypair, calls) ==
    IF keypair.err # "" THEN [err |-> keypair.err, val |-> NoObject, calls |-> calls]
    ELSE [err |-> "", calls |-> calls,
          val |-> [mnemonic |-> mnemonic_phrase, keypair |-> keypair.val]]

\* The signing key a library builds from the bytes the derivation answers
\* with (secp256k1.PrivateKey, ecdsa.SigningKey.from_string, nacl SigningKey):
\* 32 bytes and, for the two curves, a scalar of the curve, or the library
\* refuses them.
LibrarySigningKey(scheme, prv_key) ==
    IF Len(prv_key) # 32 THEN Raise("LibraryError")
    ELSE CASE scheme = SECP256K1 /\ ~ValidScalar(CurveOrderK1, prv_key) ->
                  Raise("LibraryError")
           [] scheme = SECP256R1 /\ ~ValidScalar(CurveOrderR1, prv_key) ->
                  Raise("LibraryError")
           [] OTHER -> Return(prv_key)

\* A generator that derives before it validates the phrase.
_generate_ed25519_DeriveFirst(mnemonics, prv_key) ==
    LET mnemonic_phrase == _valid_mnemonic(ED25519, mnemonics)
        ed_priv == LibrarySigningKey(ED25519, B64Decode(B64Encode(prv_key)).val)
    IN  IF ed_priv.err # "" THEN Generated("", ed_priv, ProviderCalls)
        ELSE IF mnemonic_phrase.err # ""
        THEN Generated("", mnemonic_phrase, ProviderCalls)
        ELSE Generated(mnemonic_phrase.val, SuiKeyPairED25519(ed_priv.val),
                       ProviderCalls)

_generate_secp256k1(mnemonics, prv_key) ==
    LET mnemonic_phrase == _valid_mnemonic(SECP256K1, mnemonics) IN
    IF mnemonic_phrase.err # "" THEN Generated("", mnemonic_phrase, <<>>)
    ELSE LET secp_priv == LibrarySigningKey(SECP256K1, prv_key) IN
         IF secp_priv.err # "" THEN Generated("", secp_priv, ProviderCalls)
         ELSE Generated(mnemonic_phrase.val, SuiKeyPairSECP256K1(secp_priv.val),
                        ProviderCalls)

_generate_secp256r1(mnemonics, prv_key) ==
    LET mnemonic_phrase == _valid_mnemonic(SECP256R1, mnemonics) IN
    IF mnemonic_phrase.err # "" THEN Generated("", mnemonic_phrase, <<>>)
    ELSE LET secp_priv == LibrarySigningKey(SECP256R1, prv_key) IN
         IF secp_priv.err # "" THEN Generated("", secp_priv, ProviderCalls)
         ELSE Generated(mnemonic_phrase.val, SuiKeyPairSECP256R1(secp_priv.val),
                        ProviderCalls)

\* The ed25519 generator builds the signing key from the base64 text of the
\* bytes and hands the keypair class the signing key's own bytes.
_generate_ed25519(mnemonics, prv_key) ==
    LET mnemonic_phrase == _valid_mnemonic(ED25519, mnemonics) IN
    IF mnemonic_phrase.err # "" THEN Generated("", mnemonic_phrase, <<>>)
    ELSE LET ed_priv == LibrarySigningKey(ED25519,
                                          B64Decode(B64Encode(prv_key)).val) IN
         IF ed_priv.err # "" THEN Generated("", ed_priv, ProviderCalls)
         ELSE Generated(mnemonic_phrase.val, SuiKeyPairED25519(ed_priv.val),
                        ProviderCalls)

create_new_keypair(keytype, mnemonics, prv_key) ==
    CASE keytype = ED25519   -> _generate_ed25519(mnemonics, prv_key)
      [] keytype = SECP256K1 -> _generate_secp256k1(mnemonics, prv_key)
      [] keytype = SECP256R1 -> _generate_secp256r1(mnemonics, prv_key)
      [] OTHER -> [err |-> "NotImplementedError", val |-> NoObject, calls |-> <<>>]

\* SuiAddress.from_bytes: the address of a keypair's bytes, a digest of them.
SuiAddress_from_bytes(indata) == Hexlify(Sha3_256(indata))

\* create_new_address and recover_key_and_address: the keypair of
\* create_new_keypair and the address of its bytes.
create_new_address(keytype, mnemonics, prv_key) ==
    LET made == create_new_keypair(keytype, mnemonics, prv_key) IN
    IF made.err # "" THEN made
    ELSE [made EXCEPT !.val =
              [mnemonic |-> made.val.mnemonic, keypair |-> made.val.keypair,
               address |-> SuiAddress_from_bytes(to_bytes(made.val.keypair))]]

recover_key_and_address(keytype, mnemonics, prv_key) ==
    create_new_address(keytype, mnemonics, prv_key)

--------------------------------------------------------------------------
(* The schema types of bcs.py.  A type is what a _fields or _enums entry    *)
(* names: None, an integer type of canoser with its width in bytes, bool,   *)
(* str, a list or ArrayT, a tuple, or a class of the catalog by its name.   *)

None == [k |-> "None"]
IntT(byte_lens) == [k |-> "int", byte_lens |-> byte_lens]
Uint8 == IntT(1)
Uint16 == IntT(2)
Uint32 == IntT(4)
Uint64 == IntT(8)
Uint128 == IntT(16)
Uint256 == IntT(32)
BoolT == [k |-> "bool"]
StrT == [k |-> "str"]
\* canoser.ArrayT(atype, fixed_len, encode_len); fixed_len -1 is no fixed length
ArrayT(atype, fixed_len, encode_len) ==
    [k |-> "array", atype |-> atype, fixed_len |-> fixed_len,
     encode_len |-> encode_len]
\* [atype]
ListT(atype) == ArrayT(atype, -1, TRUE)
TupleT(types) == [k |-> "tuple", types |-> types]
Class(name) == [k |-> "class", name |-> name]

\* TypeTag._enums as the class body leaves it.
TypeTag_class_enums ==
    << <<"Bool", BoolT>>, <<"U8", Uint8>>, <<"U64", Uint64>>,
       <<"U128", Uint128>>, <<"Address", Class("BCSAddress")>>,
       <<"Signer", None>>, <<"Vector", None>>, <<"Struct", None>>,
       <<"U16", Uint16>>, <<"U32", Uint32>>, <<"U256", Uint256>> >>

\* TypeTag.update_value_at on the list _enums: Python's list assignment, so
\* an index from -len to -1 counts from the end and any other index outside
\* 0..len-1 is IndexError.
\* update_value_at keeping the name of the variant before (the last one's,
\* for the first).
update_value_at_NameBefore(_enums, index, value) ==
    LET n == Len(_enums)
        i == IF index < 0 THEN index + n + 1 ELSE index + 1
        before == IF i = 1 THEN n ELSE i - 1
    IN  IF index >= n \/ index < -n THEN Raise("IndexError")
        ELSE Return([_enums EXCEPT ![i] = <<_enums[before][1], value>>])

update_value_at(_enums, index, value) ==
    LET n == Len(_enums)
        i == IF index < 0 THEN index + n + 1 ELSE index + 1
    IN  IF index >= n \/ index < -n THEN Raise("IndexError")
        ELSE Return([_enums EXCEPT ![i] = <<_enums[i][1], value>>])

\* TypeTag._enums once the module is imported: the two injections done.
TypeTag_imported ==
    update_value_at(
        update_value_at(TypeTag_class_enums, 6, ListT(Class("TypeTag"))).val,
        7, Class("StructTag")).val

--------------------------------------------------------------------------
(* The classes of bcs.py.  A Struct has its _fields, a RustEnum its _enums, *)
(* a RustOptional its _type; a field that names a class names it by         *)
(* reference, so that a class can name itself.                              *)

_BCS_ADDRESS_LENGTH == 32
_BCS_DIGEST_LENGTH == 32

BCSAddress ==
    [k |-> "struct", name |-> "BCSAddress",
     _fields |-> <<
          <<"Address", ArrayT(Uint8, _BCS_ADDRESS_LENGTH, FALSE)>> >>]

BCSDigest ==
    [k |-> "struct", name |-> "BCSDigest",
     _fields |-> <<
          <<"Digest", ArrayT(Uint8, _BCS_DIGEST_LENGTH, TRUE)>> >>]

BCSObjectReference ==
    [k |-> "struct", name |-> "BCSObjectReference",
     _fields |-> <<
          <<"ObjectID", Class("BCSAddress")>>,
          <<"SequenceNumber", Uint64>>,
          <<"ObjectDigest", Class("BCSDigest")>> >>]

BCSSharedObjectReference ==
    [k |-> "struct", name |-> "BCSSharedObjectReference",
     _fields |-> <<
          <<"ObjectID", Class("BCSAddress")>>,
          <<"SequenceNumber", Uint64>>,
          <<"Mutable", BoolT>> >>]

\* BCSOptionalU64 over a 32-bit integer.
BCSOptionalU64_Uint32 ==
    [k |-> "optional", name |-> "BCSOptionalU64", _type |-> Uint32]

BCSOptionalU64 == [k |-> "optional", name |-> "BCSOptionalU64", _type |-> Uint64]

\* TypeTag, with the variants the class attribute holds at the moment.
TypeTag == [k |-> "enum", name |-> "TypeTag", _enums |-> TypeTag_enums]

StructTag ==
    [k |-> "struct", name |-> "StructTag",
     _fields |-> <<
          <<"address", Class("BCSAddress")>>,
          <<"module", StrT>>,
          <<"name", StrT>>,
          <<"type_parameters", ListT(Class("TypeTag"))>> >>]

ObjectArg ==
    [k |-> "enum", name |-> "ObjectArg",
     _enums |-> <<
          <<"ImmOrOwnedObject", Class("BCSObjectReference")>>,
          <<"SharedObject", Class("BCSSharedObjectReference")>> >>]

Pure ==
    [k |-> "struct", name |-> "Pure",
     _fields |-> <<
          <<"Data", ListT(Uint8)>> >>]

CallArg ==
    [k |-> "enum", name |-> "CallArg",
     _enums |-> <<
          <<"Pure", Class("Pure")>>,
          <<"Object", Class("ObjectArg")>> >>]

BCSMoveCall ==
    [k |-> "struct", name |-> "BCSMoveCall",
     _fields |-> <<
          <<"package", Class("BCSAddress")>>,
          <<"module", StrT>>,
          <<"function", StrT>>,
          <<"type_arguments", ListT(Class("TypeTag"))>>,
          <<"arguments", ListT(Class("CallArg"))>> >>]

BCSPay ==
    [k |-> "struct", name |-> "BCSPay",
     _fields |-> <<
          <<"coins", ListT(Class("BCSObjectReference"))>>,
          <<"recipients", ListT(Class("BCSAddress"))>>,
          <<"amounts", ListT(Uint64)>> >>]

BCSPaySui ==
    [k |-> "struct", name |-> "BCSPaySui",
     _fields |-> <<
          <<"coins", ListT(Class("BCSObjectReference"))>>,
          <<"recipients", ListT(Class("BCSAddress"))>>,
          <<"amounts", ListT(Uint64)>> >>]

BCSPayAllSui ==
    [k |-> "struct", name |-> "BCSPayAllSui",
     _fields |-> <<
          <<"coins", ListT(Class("BCSObjectReference"))>>,
          <<"recipient", Class("BCSAddress")>> >>]

BCSTransferObject ==
    [k |-> "struct", name |-> "BCSTransferObject",
     _fields |-> <<
          <<"recipient", Class("BCSAddress")>>,
          <<"object_ref", Class("BCSObjectReference")>> >>]

BCSTransferSui ==
    [k |-> "struct", name |-> "BCSTransferSui",
     _fields |-> <<
          <<"recipient", Class("BCSAddress")>>,
          <<"amount", Class("BCSOptionalU64")>> >>]

BCSPublish ==
    [k |-> "struct", name |-> "BCSPublish",
     _fields |-> <<
          <<"modules", ListT(ListT(Uint8))>> >>]

BCSSingleTransaction ==
    [k |-> "enum", name |-> "BCSSingleTransaction",
     _enums |-> <<
          <<"TransferObject", Class("BCSTransferObject")>>,
          <<"Publish", Class("BCSPublish")>>,
          <<"Call", Class("BCSMoveCall")>>,
          <<"TransferSui", Class("BCSTransferSui")>>,
          <<"Pay", Class("BCSPay")>>,
          <<"PaySui", Class("BCSPaySui")>>,
          <<"PayAllSui", Class("BCSPayAllSui")>>,
          <<"ChangeEpoch", None>>,
          <<"Genesis", None>> >>]

BCSBatchTransaction ==
    [k |-> "struct", name |-> "BCSBatchTransaction",
     _fields |-> <<
          <<"Singles", ListT(Class("BCSSingleTransaction"))>> >>]

GasData ==
    [k |-> "struct", name |-> "GasData",
     _fields |-> <<
          <<"Payment", ListT(Class("BCSObjectReference"))>>,
          <<"Owner", Class("BCSAddress")>>,
          <<"Price", Uint64>>,
          <<"Budget", Uint64>> >>]

Argument ==
    [k |-> "enum", name |-> "Argument",
     _enums |-> <<
          <<"GasCoin", Class("GasData")>>,
          <<"Input", Uint16>>,
          <<"Result", Uint16>>,
          <<"NestedResult", TupleT(<<Uint16, Uint16>>)>> >>]

OptionalTypeTag == [k |-> "optional", name |-> "OptionalTypeTag", _type |-> Class("TypeTag")]

ProgrammableMoveCall ==
    [k |-> "struct", name |-> "ProgrammableMoveCall",
     _fields |-> <<
          <<"Package", Class("BCSAddress")>>,
          <<"Module", StrT>>,
          <<"Function", StrT>>,
          <<"Type_Arguments", ListT(Class("TypeTag"))>>,
          <<"Arguments", ListT(Class("Argument"))>> >>]

TransferObjects ==
    [k |-> "struct", name |-> "TransferObjects",
     _fields |-> <<
          <<"Objects", ListT(Class("Argument"))>>,
          <<"Address", Class("Argument")>> >>]

SplitCoin ==
    [k |-> "struct", name |-> "SplitCoin",
     _fields |-> <<
          <<"FromCoin", Class("Argument")>>,
          <<"Amount", Class("Argument")>> >>]

MergeCoins ==
    [k |-> "struct", name |-> "MergeCoins",
     _fields |-> <<
          <<"ToCoin", Class("Argument")>>,
          <<"FromCoins", ListT(Class("Argument"))>> >>]

Publish ==
    [k |-> "struct", name |-> "Publish",
     _fields |-> <<
          <<"Modules", ListT(ListT(Uint8))>> >>]

MakeMoveVec ==
    [k |-> "struct", name |-> "MakeMoveVec",
     _fields |-> <<
          <<"TypeTag", Class("OptionalTypeTag")>>,
          <<"Vector", ListT(Class("Argument"))>> >>]

Upgrade ==
    [k |-> "struct", name |-> "Upgrade",
     _fields |-> <<
          <<"Modules", ListT(ListT(Uint8))>>,
          <<"OIDs", ListT(Class("BCSAddress"))>>,
          <<"Arg", Class("Argument")>> >>]

\* Command with an eighth variant.
Command_Eight ==
    [k |-> "enum", name |-> "Command",
     _enums |-> <<
          <<"MoveCall", Class("ProgrammableMoveCall")>>,
          <<"TransferObjects", Class("TransferObjects")>>,
          <<"SplitCoin", Class("SplitCoin")>>,
          <<"MergeCoins", Class("MergeCoins")>>,
          <<"Publish", Class("Publish")>>,
          <<"MakeMoveVec", Class("MakeMoveVec")>>,
          <<"Upgrade", Class("Upgrade")>>,
          <<"Extra", None>> >>]

Command ==
    [k |-> "enum", name |-> "Command",
     _enums |-> <<
          <<"MoveCall", Class("ProgrammableMoveCall")>>,
          <<"TransferObjects", Class("TransferObjects")>>,
          <<"SplitCoin", Class("SplitCoin")>>,
          <<"MergeCoins", Class("MergeCoins")>>,
          <<"Publish", Class("Publish")>>,
          <<"MakeMoveVec", Class("MakeMoveVec")>>,
          <<"Upgrade", Class("Upgrade")>> >>]

ProgrammableTransaction ==
    [k |-> "struct", name |-> "ProgrammableTransaction",
     _fields |-> <<
          <<"Inputs", ListT(Class("CallArg"))>>,
          <<"Commands", ListT(Class("Command"))>> >>]

TransactionKind ==
    [k |-> "enum", name |-> "TransactionKind",
     _enums |-> <<
          <<"ProgrammableTransaction", Class("ProgrammableTransaction")>>,
          <<"ChangeEpoch", None>>,
          <<"Genesis", None>>,
          <<"ConsensusCommitPrologue", None>> >>]

TransactionDataV1 ==
    [k |-> "struct", name |-> "TransactionDataV1",
     _fields |-> <<
          <<"TransactionKind", Class("TransactionKind")>>,
          <<"Sender", None>>,
          <<"GasData", None>>,
          <<"TransactionExpiration", None>> >>]

TransactionData ==
    [k |-> "enum", name |-> "TransactionData",
     _enums |-> <<
          <<"V1", Class("TransactionDataV1")>> >>]

\* The class a reference names.
ClassNamed(name) ==
    CASE name = "BCSAddress" -> BCSAddress
      [] name = "BCSDigest" -> BCSDigest
      [] name = "BCSObjectReference" -> BCSObjectReference
      [] name = "BCSSharedObjectReference" -> BCSSharedObjectReference
      [] name = "BCSOptionalU64" -> BCSOptionalU64
      [] name = "TypeTag" -> TypeTag
      [] name = "StructTag" -> StructTag
      [] name = "ObjectArg" -> ObjectArg
      [] name = "Pure" -> Pure
      [] name = "CallArg" -> CallArg
      [] name = "BCSMoveCall" -> BCSMoveCall
      [] name = "BCSPay" -> BCSPay
      [] name = "BCSPaySui" -> BCSPaySui
      [] name = "BCSPayAllSui" -> BCSPayAllSui
      [] name = "BCSTransferObject" -> BCSTransferObject
      [] name = "BCSTransferSui" -> BCSTransferSui
      [] name = "BCSPublish" -> BCSPublish
      [] name = "BCSSingleTransaction" -> BCSSingleTransaction
      [] name = "BCSBatchTransaction" -> BCSBatchTransaction
      [] name = "GasData" -> GasData
      [] name = "Argument" -> Argument
      [] name = "OptionalTypeTag" -> OptionalTypeTag
      [] name = "ProgrammableMoveCall" -> ProgrammableMoveCall
      [] name = "TransferObjects" -> TransferObjects
      [] name = "SplitCoin" -> SplitCoin
      [] name = "MergeCoins" -> MergeCoins
      [] name = "Publish" -> Publish
      [] name = "MakeMoveVec" -> MakeMoveVec
      [] name = "Upgrade" -> Upgrade
      [] name = "Command" -> Command
      [] name = "ProgrammableTransaction" -> ProgrammableTransaction
      [] name = "TransactionKind" -> TransactionKind
      [] name = "TransactionDataV1" -> TransactionDataV1
      [] name = "TransactionData" -> TransactionData

\* int.from_bytes(b, "little")
RECURSIVE LittleEndian(_)
LittleEndian(b) ==
    IF b = <<>> THEN 0
    ELSE IF Len(b) = 1 THEN b[1]
    ELSE LET half == Len(b) \div 2
             upper == LittleEndian(SubSeq(b, half + 1, Len(b)))
         IN  IF upper = 0 THEN LittleEndian(SubSeq(b, 1, half))
             ELSE LittleEndian(SubSeq(b, 1, half)) + (256 ^ half) * upper

\* s[0 : j] of Python, for j >= -1.
SliceTo(s, j) ==
    IF j >= 0 THEN SubSeq(s, 1, IF j < Len(s) THEN j ELSE Len(s))
    ELSE SubSeq(s, 1, Len(s) - 1)

\* The loop of post_deser: each round appends the number read from
\* darray[0 : dlen - 1] and keeps that slice as darray.
RECURSIVE PostDeserLoop(_, _, _, _)
PostDeserLoop(darray, dlen, rounds, results) ==
    IF rounds = 0 THEN results
    ELSE PostDeserLoop(SliceTo(darray, dlen - 1), dlen, rounds - 1,
                       Append(results, LittleEndian(SliceTo(darray, dlen - 1))))

\* An instance of a Struct: the values of its fields in declared order, and
\* the attributes set on it besides them.
Instance(cls_name, fields) == [cls |-> cls_name, fields |-> fields, attrs |-> <<>>]

\* Pure.post_deser: pop(0) of an empty list is IndexError, % 0 is
\* ZeroDivisionError; `values` is set only when the length divides.
post_deser(self) ==
    LET Data == self.fields[1] IN
    IF Data = <<>> THEN Raise("IndexError")
    ELSE LET counter == Data[1]
             darray == Tail(Data)
         IN  IF counter = 0 THEN Raise("ZeroDivisionError")
             ELSE IF Len(darray) % counter = 0
             THEN LET dlen == Len(darray) \div counter IN
                  Return([self EXCEPT !.attrs =
                      << <<"count", counter>>,
                         <<"values", PostDeserLoop(darray, dlen, counter, <<>>)>> >>])
             ELSE Return([self EXCEPT !.attrs = << <<"count", counter>> >>])

\* getattr(self, name): an attribute that was never set is AttributeError.
getattr(self, name) ==
    LET found == {i \in 1..Len(self.attrs) : self.attrs[i][1] = name} IN
    IF found = {} THEN Raise("AttributeError")
    ELSE Return(self.attrs[CHOOSE i \in found : TRUE][2])

\* Pure.to_json_serializable: the dict of the two attributes, read in the
\* order count, values.
to_json_serializable(self) ==
    LET c == getattr(self, "count")
        v == getattr(self, "values")
    IN  IF c.err # "" THEN Raise(c.err)
        ELSE IF v.err # "" THEN Raise(v.err)
        ELSE Return([count |-> c.val, values |-> v.val])

--------------------------------------------------------------------------
(* The constructors from a reference read off an object.  A Python value   *)
(* is taken with its type, <<type name, value>>.  A hex text is "0x" and    *)
(* its hex digits as numbers 0..15; a base58 text is its digits as numbers  *)
(* 0..57.                                                                   *)

\* binascii.unhexlify of the digits: two digits a byte, an odd number of
\* digits is binascii.Error.
Unhexlify(digits) ==
    [i \in 1..(Len(digits) \div 2) |-> 16 * digits[2 * i - 1] + digits[2 * i]]

\* hexstring_to_list: the bytes of the hex digits after the "0x".
hexstring_to_list(indata) ==
    IF Len(indata.digits) % 2 = 1 THEN Raise("binascii.Error")
    ELSE Return(Unhexlify(indata.digits))

\* acc * 58 + carry over the bytes acc[i..], least significant first.
RECURSIVE Base58MulAdd(_, _, _)
Base58MulAdd(acc, i, carry) ==
    IF i > Len(acc) THEN (IF carry = 0 THEN <<>> ELSE <<carry>>)
    ELSE LET x == acc[i] * 58 + carry IN
         <<x % 256>> \o Base58MulAdd(acc, i + 1, x \div 256)

\* The number the base58 digits lo..n spell, as bytes, least significant
\* first.
RECURSIVE Base58Number(_, _, _)
Base58Number(digits, lo, n) ==
    IF n < lo THEN <<>>
    ELSE Base58MulAdd(Base58Number(digits, lo, n - 1), 1, digits[n])

\* The bytes in the opposite order.
BigEndian(b) == [i \in 1..Len(b) |-> b[Len(b) + 1 - i]]

\* The leading digits 0 (the character '1') of a base58 text.
LeadingZeros(digits) ==
    IF \A i \in 1..Len(digits) : digits[i] = 0 THEN Len(digits)
    ELSE (CHOOSE i \in 1..Len(digits) :
              digits[i] # 0 /\ \A j \in 1..(i - 1) : digits[j] = 0) - 1

\* b58str_to_list: base58.b58decode as a list, a zero byte for each leading
\* '1' and then the bytes of the number the other digits spell.
b58str_to_list(indata) ==
    LET zeros == LeadingZeros(indata) IN
    Fill(0, zeros) \o BigEndian(Base58Number(indata, zeros + 1, Len(indata)))

\* canoser's check of a value against a declared type.
typecheck(t, value) ==
    CASE t.k = "class" -> value[1] = t.name
      [] t.k = "int" -> value[1] = "int" /\ value[2] >= 0
      [] t.k = "bool" -> value[1] = "bool"
      [] t.k = "array" ->
            /\ value[1] = "list"
            /\ t.fixed_len = -1 \/ Len(value[2]) = t.fixed_len
            /\ \A i \in 1..Len(value[2]) : value[2][i] \in 0..255
      [] OTHER -> TRUE

\* cls(*args): the instance whose fields are the arguments in order.  checked
\* is whether the constructor checks each argument against the type its
\* field declares and raises TypeError for one that does not match.  The
\* call is reported with the types of its arguments.
New(cls, args, checked) ==
    IF \/ Len(args) > Len(cls._fields)
       \/ /\ checked
          /\ \E i \in 1..Len(args) : ~typecheck(cls._fields[i][2], args[i])
    THEN [err |-> "TypeError", val |-> NoObject, calls |-> <<>>]
    ELSE [err |-> "",
          val |-> Instance(cls.name, [i \in 1..Len(args) |-> args[i][2]]),
          calls |-> << <<cls.name, [i \in 1..Len(args) |-> args[i][1]]>> >>]

\* BCSAddress.from_str
BCSAddress_from_str(indata, checked) ==
    LET list == hexstring_to_list(indata) IN
    IF list.err # "" THEN [err |-> list.err, val |-> NoObject, calls |-> <<>>]
    ELSE New(BCSAddress, << <<"list", list.val>> >>, checked)

\* BCSDigest.from_str
BCSDigest_from_str(indata, checked) ==
    New(BCSDigest, << <<"list", b58str_to_list(indata)>> >>, checked)

\* The types whose instances have object_id, version and digest.
HasRefAttributes(indata) == indata.type \in {"ObjectRead", "GenericRef"}

\* cls(BCSAddress.from_str(indata.object_id), indata.version,
\*     BCSDigest.from_str(indata.digest)), the arguments evaluated in order.
FromRefAttributes(cls, indata, checked) ==
    IF ~HasRefAttributes(indata)
    THEN [err |-> "AttributeError", val |-> NoObject, calls |-> <<>>]
    ELSE LET address == BCSAddress_from_str(indata.object_id, checked)
             digest == BCSDigest_from_str(indata.digest, checked)
         IN  IF address.err # "" THEN address
             ELSE IF digest.err # "" THEN digest
             ELSE New(cls, << <<"BCSAddress", address.val>>,
                              <<"int", indata.version>>,
                              <<"BCSDigest", digest.val>> >>, checked)

\* BCSObjectReference.from_generic_ref
BCSObjectReference_from_generic_ref(indata, checked) ==
    IF indata.type = "ObjectRead"
    THEN FromRefAttributes(BCSObjectReference, indata, checked)
    ELSE [err |-> "ValueError", val |-> NoObject, calls |-> <<>>]

\* BCSSharedObjectReference.from_generic_ref
BCSSharedObjectReference_from_generic_ref(indata, checked) ==
    FromRefAttributes(BCSSharedObjectReference, indata, checked)

--------------------------------------------------------------------------
(* canoser's encoder and decoder, by the rules of the canonical encoding:   *)
(* integers little-endian over their width, bool one byte, a string or a    *)
(* sequence after its ULEB128 length, a struct its fields in declared       *)
(* order, a tagged union its ULEB128 variant index and then the payload, an *)
(* optional as the union of absent (0) and present (1).                     *)

\* The types of a Struct's fields, in declared order.
FieldTypes(cls) ==
    IF cls._fields = <<>> THEN <<>>
    ELSE [i \in 1..Len(cls._fields) |-> cls._fields[i][2]]

\* An instance of a RustEnum: the variant's index with the payload's value
\* (NoObject for a variant without payload).
EnumInstance(cls_name, index, value) ==
    [cls |-> cls_name, variant |-> <<index, value>>]

\* An instance of a RustOptional: no value, or one.
Absent(cls_name) == [cls |-> cls_name, value |-> <<>>]
Present(cls_name, value) == [cls |-> cls_name, value |-> <<value>>]

\* value.to_bytes(byte_lens, "little")
RECURSIVE IntBytes(_, _)
IntBytes(value, byte_lens) ==
    IF byte_lens = 0 THEN <<>>
    ELSE IF byte_lens = 1 THEN <<value % 256>>
    ELSE LET half == byte_lens \div 2
             \* value >> (8 * half), for a value of at most 32 bits
             upper == IF half >= 4 THEN (IF value < 0 THEN -1 ELSE 0)
                      ELSE value \div (256 ^ half)
         IN  IntBytes(value, half) \o IntBytes(upper, byte_lens - half)

RECURSIVE Uleb128(_)
Uleb128(n) ==
    IF n < 128 THEN <<n>> ELSE <<128 + (n % 128)>> \o Uleb128(n \div 128)

\* The type a field, an item or a payload is declared with: a class
\* reference stands for the class it names.
Declaration(t) == IF t.k = "class" THEN ClassNamed(t.name) ELSE t

RECURSIVE Encode(_, _)
RECURSIVE EncodeItems(_, _)
RECURSIVE EncodeEach(_, _)

\* The items of a sequence, all of one type, in order: the first half's
\* bytes and then the second half's.  Integers have one width, so byte k
\* of the whole belongs to item (k - 1) \div width + 1.
EncodeItems(atype, items) ==
    CASE items = <<>> -> <<>>
      [] items # <<>> /\ atype.k = "int" ->
            LET w == atype.byte_lens IN
            [k \in 1..(Len(items) * w) |->
                IntBytes(items[(k - 1) \div w + 1], w)[((k - 1) % w) + 1]]
      [] Len(items) = 1 /\ atype.k # "int" -> Encode(Declaration(atype), items[1])
      [] OTHER ->
            LET half == Len(items) \div 2 IN
            EncodeItems(atype, SubSeq(items, 1, half))
                \o EncodeItems(atype, SubSeq(items, half + 1, Len(items)))

\* The values of a struct's fields or of a tuple, each of its own type.
EncodeEach(types, values) ==
    IF types = <<>> THEN <<>>
    ELSE Encode(Declaration(Head(types)), Head(values))
             \o EncodeEach(Tail(types), Tail(values))

Encode(t, v) ==
    CASE t.k = "None" -> <<>>
      [] t.k = "int" -> IntBytes(v, t.byte_lens)
      [] t.k = "bool" -> IF v THEN <<1>> ELSE <<0>>
      [] t.k = "str" -> Uleb128(Len(v)) \o v
      [] t.k = "array" ->
            (IF t.encode_len THEN Uleb128(Len(v)) ELSE <<>>) \o EncodeItems(t.atype, v)
      [] t.k = "tuple" -> EncodeEach(t.types, v)
      [] t.k = "class" -> Encode(ClassNamed(t.name), v)
      [] t.k = "struct" -> EncodeEach(FieldTypes(t), v.fields)
      [] t.k = "enum" ->
            Uleb128(v.variant[1])
                \o Encode(Declaration(t._enums[v.variant[1] + 1][2]), v.variant[2])
      [] t.k = "optional" ->
            IF v.value # <<>> THEN <<1>> \o Encode(Declaration(t._type), v.value[1])
            ELSE <<0>>

\* What a decoding step answers: an error, or the value read and the
\* position of the next byte.
Failed(e) == [err |-> e, val |-> NoObject, pos |-> 0]
Read(val, pos) == [err |-> "", val |-> val, pos |-> pos]

RECURSIVE Uleb128Decode(_, _, _, _)
Uleb128Decode(b, pos, scale, sum) ==
    IF pos > Len(b) THEN Failed("TruncatedDataError")
    ELSE IF b[pos] < 128 THEN Read(sum + b[pos] * scale, pos + 1)
    ELSE Uleb128Decode(b, pos + 1, scale * 128, sum + (b[pos] - 128) * scale)

RECURSIVE Decode(_, _, _)
RECURSIVE DecodeItems(_, _, _, _)
RECURSIVE DecodeEach(_, _, _, _)

\* count items of one type from pos on: the first half of them, then the
\* second half from where the first ended.  Integers have one width, so
\* the i-th stands at pos + (i - 1) * width, and the first that does not
\* fit the buffer is the error.
DecodeItems(atype, b, pos, count) ==
    CASE count = 0 -> Read(<<>>, pos)
      [] count > 0 /\ atype.k = "int" ->
            LET w == atype.byte_lens IN
            IF pos + count * w - 1 > Len(b) THEN Failed("TruncatedDataError")
            ELSE Read([i \in 1..count |->
                          LittleEndian(SubSeq(b, pos + (i - 1) * w, pos + i * w - 1))],
                      pos + count * w)
      [] count = 1 /\ atype.k # "int" ->
            LET item == Decode(Declaration(atype), b, pos) IN
            IF item.err # "" THEN item ELSE Read(<<item.val>>, item.pos)
      [] OTHER ->
            LET first == DecodeItems(atype, b, pos, count \div 2) IN
            IF first.err # "" THEN first
            ELSE LET second == DecodeItems(atype, b, first.pos,
                                           count - count \div 2) IN
                 IF second.err # "" THEN second
                 ELSE Read(first.val \o second.val, second.pos)

DecodeEach(types, b, pos, values) ==
    IF types = <<>> THEN Read(values, pos)
    ELSE LET value == Decode(Declaration(Head(types)), b, pos) IN
         IF value.err # "" THEN value
         ELSE DecodeEach(Tail(types), b, value.pos, Append(values, value.val))

\* Pure overrides decode: the fields, then post_deser on the new instance.
Decode(t, b, pos) ==
    CASE t.k = "None" -> Read(NoObject, pos)
      [] t.k = "int" ->
            IF pos + t.byte_lens - 1 > Len(b) THEN Failed("TruncatedDataError")
            ELSE Read(LittleEndian(SubSeq(b, pos, pos + t.byte_lens - 1)),
                      pos + t.byte_lens)
      [] t.k = "bool" ->
            IF pos > Len(b) THEN Failed("TruncatedDataError")
            ELSE IF b[pos] \notin {0, 1} THEN Failed("InvalidBoolEncoding")
            ELSE Read(b[pos] = 1, pos + 1)
      [] t.k = "str" ->
            LET n == Uleb128Decode(b, pos, 1, 0) IN
            IF n.err # "" THEN n
            ELSE IF n.pos + n.val - 1 > Len(b) THEN Failed("TruncatedDataError")
            ELSE Read(SubSeq(b, n.pos, n.pos + n.val - 1), n.pos + n.val)
      [] t.k = "array" ->
            IF t.encode_len
            THEN LET n == Uleb128Decode(b, pos, 1, 0) IN
                 IF n.err # "" THEN n
                 ELSE IF t.fixed_len >= 0 /\ n.val # t.fixed_len
                 THEN Failed("TypeError")
                 ELSE DecodeItems(t.atype, b, n.pos, n.val)
            ELSE DecodeItems(t.atype, b, pos, t.fixed_len)
      [] t.k = "tuple" -> DecodeEach(t.types, b, pos, <<>>)
      [] t.k = "class" -> Decode(ClassNamed(t.name), b, pos)
      [] t.k = "struct" ->
            LET fields == DecodeEach(FieldTypes(t), b, pos, <<>>) IN
            IF fields.err # "" THEN fields
            ELSE IF t.name = "Pure"
            THEN LET pure_inst == post_deser(Instance(t.name, fields.val)) IN
                 IF pure_inst.err # "" THEN Failed(pure_inst.err)
                 ELSE Read(pure_inst.val, fields.pos)
            ELSE Read(Instance(t.name, fields.val), fields.pos)
      [] t.k = "enum" ->
            LET index == Uleb128Decode(b, pos, 1, 0) IN
            IF index.err # "" THEN index
            ELSE IF index.val >= Len(t._enums) THEN Failed("UnknownVariantError")
            ELSE LET payload == Decode(Declaration(t._enums[index.val + 1][2]),
                                       b, index.pos) IN
                 IF payload.err # "" THEN payload
                 ELSE Read(EnumInstance(t.name, index.val, payload.val), payload.pos)
      [] t.k = "optional" ->
            LET index == Uleb128Decode(b, pos, 1, 0) IN
            IF index.err # "" THEN index
            ELSE IF index.val >= 2 THEN Failed("UnknownVariantError")
            ELSE IF index.val = 0 THEN Read(Absent(t.name), index.pos)
            ELSE LET payload == Decode(Declaration(t._type), b, index.pos) IN
                 IF payload.err # "" THEN payload
                 ELSE Read(Present(t.name, payload.val), payload.pos)

\* cls.deserialize(in_data): the whole buffer is one value of the class.
deserialize(cls, in_data) ==
    LET root == Decode(cls, in_data, 1) IN
    IF root.err # "" THEN Raise(root.err)
    ELSE IF root.pos <= Len(in_data) THEN Raise("TrailingDataError")
    ELSE Return(root.val)

\* variant_for_index of BCSSingleTransaction and of TransactionData: the
\* test on the index, then the list access (which takes -len..-1 as counted
\* from the end and raises IndexError for the rest).
variant_for_index(cls, index) ==
    LET n == Len(cls._enums) IN
    IF index > n THEN Raise("IndexError")
    ELSE IF index >= n \/ index < -n THEN Raise("IndexError")
    ELSE Return(cls._enums[IF index < 0 THEN index + n + 1 ELSE index + 1])

--------------------------------------------------------------------------
(* The arguments the calls are tried on                                    *)

\* Private key bytes: in range, zero (no EC scalar), and of a wrong length.
GoodSecrets == {Fill(7, 32), Ramp(1, 32)}
SecretInputs == GoodSecrets \cup {Fill(0, 32), Fill(7, 31), Fill(7, 33)}

\* Public key bytes: 32 bytes, 33 bytes with a point prefix and without, and
\* wrong lengths.
PublicInputs ==
    {Fill(9, 32), <<2>> \o Fill(9, 32), <<4>> \o Fill(9, 32), Fill(9, 31),
     <<2>> \o Fill(9, 33)}

\* The public key objects a caller can hold.
PublicKeyObjects ==
    {PublicKeyClass(x[1], x[2]).val :
        x \in {y \in KeyPairSchemes \X PublicInputs :
                   PublicKeyClass(y[1], y[2]).err = ""}}

\* Transaction text: base64 of 0..MaxTxLen bytes, and text that is not base64.
TxInputs == {B64Encode(Ramp(200, n)) : n \in 0..MaxTxLen} \cup {<<"A">>}

\* Keystrings: the base64 text of a tag byte and 32 key bytes (44 characters,
\* no padding), of a tag and 31 or 30 bytes (44 characters, padded), of a tag
\* and 33 bytes (48 characters), and 44 characters that decode to nothing or
\* not at all.
KeystringInputs ==
    {B64Encode(<<tag>> \o Fill(7, 32)) : tag \in 0..3}
    \cup {B64Encode(<<1>> \o Fill(0, 32))}
    \cup {B64Encode(<<tag>> \o Fill(7, n)) : tag \in {0, 3}, n \in {31, 33}}
    \cup {B64Encode(<<1>> \o Fill(7, 30)), Fill("=", 44), Fill("A", 43) \o <<"!">>}

MnemonicInputs == {"", "twelve valid words", "not a phrase"}

--------------------------------------------------------------------------
(* The module as imported: no object built, `weights` not bound            *)

Init ==
    /\ kp = NoObject
    /\ msig = NoObject
    /\ weights = [bound |-> FALSE, val |-> <<>>]
    /\ TypeTag_enums = TypeTag_imported
    /\ stdout = <<>>
    /\ last = [op |-> "import", arg |-> <<>>, err |-> "", val |-> <<>>,
               calls |-> <<>>]

--------------------------------------------------------------------------
(* The calls                                                               *)

Call(op, arg, r) ==
    [op |-> op, arg |-> arg, err |-> r.err, val |-> r.val, calls |-> <<>>]

\* SuiPrivateKey<scheme>(indata)
NewPrivateKey ==
    \E sch \in KeyPairSchemes, indata \in SecretInputs :
        /\ last' = Call("PrivateKey", <<sch, indata>>, PrivateKeyClass(sch, indata))
        /\ UNCHANGED <<kp, msig, weights, TypeTag_enums, stdout>>

\* SuiPublicKey<scheme>(indata)
NewPublicKey ==
    \E sch \in KeyPairSchemes, indata \in PublicInputs :
        /\ last' = Call("PublicKey", <<sch, indata>>, PublicKeyClass(sch, indata))
        /\ UNCHANGED <<kp, msig, weights, TypeTag_enums, stdout>>

\* The caller keeps the keypair a call returns.
Keep(r) == IF r.err = "" THEN r.val ELSE kp

\* SuiKeyPair<scheme>(secret_bytes)
NewKeyPair ==
    \E sch \in KeyPairSchemes, secret_bytes \in SecretInputs :
        LET r == KeyPairClass(sch, secret_bytes) IN
        /\ last' = Call("KeyPair", <<sch, secret_bytes>>, r)
        /\ kp' = Keep(r)
        /\ UNCHANGED <<msig, weights, TypeTag_enums, stdout>>

\* SuiKeyPair<scheme>.from_bytes(indata)
FromBytes ==
    \E sch \in KeyPairSchemes, indata \in SecretInputs :
        LET r == KeyPairClass_from_bytes(sch, indata) IN
        /\ last' = Call("from_bytes", <<sch, indata>>, r)
        /\ kp' = Keep(r)
        /\ UNCHANGED <<msig, weights, TypeTag_enums, stdout>>

\* SuiKeyPair<scheme>.from_b64(indata)
FromB64 ==
    \E sch \in KeyPairSchemes, indata \in KeystringInputs :
        LET r == KeyPairClass_from_b64(sch, indata) IN
        /\ last' = Call("from_b64", <<sch, indata>>, r)
        /\ kp' = Keep(r)
        /\ UNCHANGED <<msig, weights, TypeTag_enums, stdout>>

\* keypair_from_keystring(keystring), on a keystring from outside
FromKeystring ==
    \E keystring \in KeystringInputs :
        LET r == keypair_from_keystring(keystring) IN
        /\ last' = Call("keypair_from_keystring", keystring, r)
        /\ kp' = Keep(r)
        /\ UNCHANGED <<msig, weights, TypeTag_enums, stdout>>

\* keypair_from_keystring(kp.serialize()): the held keypair, reloaded
Reload ==
    /\ kp # NoObject
    /\ LET r == keypair_from_keystring(serialize(kp)) IN
        /\ last' = Call("reload", kp, r)
        /\ kp' = Keep(r)
    /\ UNCHANGED <<msig, weights, TypeTag_enums, stdout>>

\* create_new_keypair(keytype, mnemonics), the derivation answering prv_key
CreateNewKeypair ==
    \E keytype \in KeyPairSchemes \cup {MULTISIG}, mnemonics \in MnemonicInputs,
       prv_key \in SecretInputs :
        LET r == create_new_keypair(keytype, mnemonics, prv_key) IN
        /\ last' = [op |-> "create_new_keypair",
                    arg |-> <<keytype, mnemonics, prv_key>>,
                    err |-> r.err, val |-> r.val, calls |-> r.calls]
        /\ kp' = IF r.err = "" THEN r.val.keypair ELSE kp
        /\ UNCHANGED <<msig, weights, TypeTag_enums, stdout>>

\* create_new_address(keytype, mnemonics) and
\* recover_key_and_address(keytype, mnemonics, derv_path)
CreateNewAddress ==
    \E keytype \in KeyPairSchemes \cup {MULTISIG}, mnemonics \in MnemonicInputs,
       prv_key \in {Fill(7, 32), Fill(7, 31)}, recover \in BOOLEAN :
        LET r == IF recover
                 THEN recover_key_and_address(keytype, mnemonics, prv_key)
                 ELSE create_new_address(keytype, mnemonics, prv_key)
        IN
        /\ last' = [op |-> IF recover THEN "recover_key_and_address"
                           ELSE "create_new_address",
                    arg |-> <<keytype, mnemonics, prv_key>>,
                    err |-> r.err, val |-> r.val, calls |-> r.calls]
        /\ kp' = IF r.err = "" THEN r.val.keypair ELSE kp
        /\ UNCHANGED <<msig, weights, TypeTag_enums, stdout>>

\* kp.private_key.sign_secure(public_key, tx_data)
SignSecure ==
    /\ kp # NoObject
    /\ \E public_key \in PublicKeyObjects \cup {kp.public_key}, tx_data \in TxInputs :
        last' = Call("sign_secure", <<public_key, tx_data>>,
                     sign_secure(kp.private_key, public_key, tx_data))
    /\ UNCHANGED <<kp, msig, weights, TypeTag_enums, stdout>>

\* kp.new_sign_secure(tx_data)
NewSignSecure ==
    /\ kp # NoObject
    /\ \E tx_data \in TxInputs :
        last' = Call("new_sign_secure", tx_data, new_sign_secure(kp, tx_data))
    /\ UNCHANGED <<kp, msig, weights, TypeTag_enums, stdout>>

\* kp.serialize()
Serialize ==
    /\ kp # NoObject
    /\ last' = Call("serialize", <<>>, Return(serialize(kp)))
    /\ UNCHANGED <<kp, msig, weights, TypeTag_enums, stdout>>

\* kp.to_bytes()
ToBytes ==
    /\ kp # NoObject
    /\ last' = Call("to_bytes", <<>>, Return(to_bytes(kp)))
    /\ UNCHANGED <<kp, msig, weights, TypeTag_enums, stdout>>

--------------------------------------------------------------------------
(* The multisig calls                                                      *)

\* Sequences of n distinct elements of S.
DistinctSeqs(S, n) ==
    {q \in [1..n -> S] : \A i, j \in 1..n : i # j => q[i] # q[j]}

SomePublicKey == CHOOSE k \in PublicKeyObjects : k.scheme = ED25519

\* Key lists: none, up to MaxKeys distinct keys in every order, ten and eleven.
KeyListInputs ==
    {<<>>}
    \cup UNION {DistinctSeqs(PublicKeyObjects, n) : n \in 1..MaxKeys}
    \cup {Fill(SomePublicKey, 10), Fill(SomePublicKey, 11)}

\* Weight lists: none, one and two weights, a weight over a byte, ten and
\* eleven.
WeightListInputs == {<<>>, <<5>>, <<300>>, <<5, 5>>, Fill(1, 10), Fill(1, 11)}

ThresholdInputs == {-1, 0, 1, 3, 11}

\* What the module-level name `weights` can be bound to: the script's
\* [1, 2, 3], and two other lists.
GlobalWeightInputs == {<<1, 2, 3>>, <<2, 1>>, <<1, 1>>}

\* A binding of `weights` with a weight that does not fit one byte.
OverflowingWeights == <<300, 1>>

\* weights = [1, 2, 3] at module level
BindWeights ==
    \E w \in GlobalWeightInputs \cup {OverflowingWeights} :
        /\ weights' = [bound |-> TRUE, val |-> w]
        /\ last' = Call("weights", w, Return(w))
        /\ UNCHANGED <<kp, msig, TypeTag_enums, stdout>>

\* msig = MultiSigPublicKey(pk_keys, pk_weights, threshold): a call that
\* raises binds no object.
NewMultiSig ==
    \E pk_keys \in KeyListInputs, pk_weights \in WeightListInputs,
       threshold \in ThresholdInputs :
        LET r == MultiSigPublicKey(pk_keys, pk_weights, threshold, weights) IN
        /\ last' = Call("MultiSigPublicKey", <<pk_keys, pk_weights, threshold>>, r)
        /\ msig' = r.val
        /\ UNCHANGED <<kp, weights, TypeTag_enums, stdout>>

\* _msta(msig)
Msta ==
    /\ msig # NoObject
    /\ Len(stdout) < MaxPrinted
    /\ LET r == _msta(msig) IN
        /\ last' = [op |-> "_msta", arg |-> msig, err |-> r.err, val |-> r.val,
                    calls |-> <<>>, fed |-> r.fed]
        /\ stdout' = stdout \o r.printed
    /\ UNCHANGED <<kp, msig, weights, TypeTag_enums>>

NextMS == BindWeights \/ NewMultiSig \/ Msta

SpecMS == Init /\ [][NextMS]_vars

\* The multisig objects the constructor returns, under some binding of
\* `weights`, for up to MaxKeys distinct keys and a threshold it takes.
MultiSigObjects ==
    {MultiSigPublicKey(x[1], Fill(1, Len(x[1])), x[2],
                       [bound |-> TRUE, val |-> x[3]]).val :
        x \in {y \in (UNION {DistinctSeqs(PublicKeyObjects, n) : n \in 1..MaxKeys})
                      \X {1, 2} \X GlobalWeightInputs :
                    /\ y[2] <= Len(y[1])
                    /\ Len(y[1]) <= Len(y[3])}}

\* Two multisig objects in hand, no address computed yet.
InitMsta ==
    /\ kp = NoObject
    /\ msig = NoObject
    /\ weights = [bound |-> FALSE, val |-> <<>>]
    /\ TypeTag_enums = TypeTag_imported
    /\ stdout = <<>>
    /\ \E m1 \in MultiSigObjects, m2 \in MultiSigObjects :
        last = [op |-> "two multisigs", arg |-> <<m1, m2>>, err |-> "",
                val |-> <<>>, calls |-> <<>>]

\* _msta on the one and on the other
MstaPair ==
    /\ last.op = "two multisigs"
    /\ last' = [last EXCEPT !.op = "_msta pair",
                            !.val = <<_msta(last.arg[1]), _msta(last.arg[2])>>]
    /\ stdout' = stdout \o _msta(last.arg[1]).printed \o _msta(last.arg[2]).printed
    /\ UNCHANGED <<kp, msig, weights, TypeTag_enums>>

SpecMsta == InitMsta /\ [][MstaPair]_vars

--------------------------------------------------------------------------
(* The calls that only read: a keypair and a multisig object in hand       *)

\* The messages sign is called on.
SignInputs == {<<>>, <<1, 2, 3>>, Ramp(250, 8)}

\* kp.private_key.sign(data)
Sign ==
    /\ kp # NoObject
    /\ \E data \in SignInputs :
        last' = Call("PrivateKey.sign", data,
                     Return(PrivateKey_sign(kp.private_key, data)))
    /\ UNCHANGED <<kp, msig, weights, TypeTag_enums, stdout>>

\* A keypair of each scheme, and a multisig object of one of its keys and of
\* two, built with `weights` bound to [1, 2, 3].
InitFrame ==
    /\ kp \in {KeyPairClass(sch, secret_bytes).val :
                   sch \in KeyPairSchemes, secret_bytes \in GoodSecrets}
    /\ weights = [bound |-> TRUE, val |-> <<1, 2, 3>>]
    /\ msig \in {MultiSigPublicKey(pk_keys, Fill(1, Len(pk_keys)), 1, weights).val :
                     pk_keys \in {<<kp.public_key>>, <<kp.public_key, SomePublicKey>>}}
    /\ TypeTag_enums = TypeTag_imported
    /\ stdout = <<>>
    /\ last = [op |-> "constructed", arg |-> <<>>, err |-> "", val |-> <<>>,
               calls |-> <<>>]

NextFrame ==
    \/ Sign
    \/ SignSecure
    \/ NewSignSecure
    \/ Serialize
    \/ ToBytes
    \/ Msta

SpecFrame == InitFrame /\ [][NextFrame]_vars

--------------------------------------------------------------------------
(* The import of bcs.py, and update_value_at calls after it                *)

MaxUpdates == 2

\* Indexes: the two ends, the injected positions, and the first ones out of
\* range on either side.
IndexInputs == {-12, -11, -5, -1, 0, 6, 7, 10, 11, 12}

\* Payload types handed to update_value_at.
PayloadInputs == {None, Uint8, Class("StructTag")}

\* The body of class TypeTag has been executed, the two lines after
\* StructTag have not.
InitTT ==
    /\ kp = NoObject
    /\ msig = NoObject
    /\ weights = [bound |-> FALSE, val |-> <<>>]
    /\ TypeTag_enums = TypeTag_class_enums
    /\ stdout = <<>>
    /\ last = [op |-> "class TypeTag", arg |-> <<>>, err |-> "", val |-> <<>>,
               calls |-> <<>>]

\* TypeTag.update_value_at(6, [TypeTag])
InjectVector ==
    /\ last.op = "class TypeTag"
    /\ LET r == update_value_at(TypeTag_enums, 6, ListT(Class("TypeTag"))) IN
        /\ TypeTag_enums' = r.val
        /\ last' = [op |-> "inject Vector", arg |-> <<6, ListT(Class("TypeTag"))>>,
                    err |-> r.err, val |-> <<>>, calls |-> <<>>]
    /\ UNCHANGED <<kp, msig, weights, stdout>>

\* TypeTag.update_value_at(7, StructTag): the module is imported.
InjectStruct ==
    /\ last.op = "inject Vector"
    /\ LET r == update_value_at(TypeTag_enums, 7, Class("StructTag")) IN
        /\ TypeTag_enums' = r.val
        /\ last' = [op |-> "imported", arg |-> <<7, Class("StructTag")>>,
                    err |-> r.err, val |-> <<>>, calls |-> <<>>]
    /\ UNCHANGED <<kp, msig, weights, stdout>>

\* TypeTag.update_value_at(index, value), called by anyone after the import;
\* last.calls keeps the calls made.
UpdateValueAt ==
    /\ last.op \in {"imported", "update_value_at"}
    /\ Len(last.calls) < MaxUpdates
    /\ \E index \in IndexInputs, value \in PayloadInputs :
        LET r == update_value_at(TypeTag_enums, index, value) IN
        /\ TypeTag_enums' = IF r.err = "" THEN r.val ELSE TypeTag_enums
        /\ last' = [op |-> "update_value_at", arg |-> <<index, value>>,
                    err |-> r.err, val |-> <<>>,
                    calls |-> Append(last.calls, <<index, value>>)]
    /\ UNCHANGED <<kp, msig, weights, stdout>>

NextTT == InjectVector \/ InjectStruct \/ UpdateValueAt

SpecTT == InitTT /\ [][NextTT]_vars

--------------------------------------------------------------------------
(* The calls on the classes of bcs.py, after the import                    *)

MaxIndex == 12

\* cls.variant_for_index(index), for the two classes that define it
VariantForIndex ==
    \E cls \in {BCSSingleTransaction, TransactionData}, index \in -MaxIndex..MaxIndex :
        /\ last' = Call("variant_for_index", <<cls.name, index>>,
                        variant_for_index(cls, index))
        /\ UNCHANGED <<kp, msig, weights, TypeTag_enums, stdout>>

\* The Data of a Pure: empty, a count of 0, a count and chunks of one, two
\* and three bytes, and a length the count does not divide.
PureDataInputs ==
    {<<>>, <<0>>, <<0, 5>>, <<1>>, <<1, 5>>, <<1, 232, 3>>, <<2, 1, 2>>,
     <<2, 1, 0, 2, 0>>, <<2, 1, 2, 3>>, <<3, 7, 8, 9>>, <<1, 1, 2, 3>>,
     <<3, 1, 2, 3, 4, 5, 6>>}

\* Pure(Data).post_deser()
PostDeser ==
    \E Data \in PureDataInputs :
        /\ last' = Call("post_deser", Data, post_deser(Instance("Pure", <<Data>>)))
        /\ UNCHANGED <<kp, msig, weights, TypeTag_enums, stdout>>

\* Pure.decode(...).to_json_serializable(): the instance is the one that
\* decode returned, that is one on which post_deser did not raise.
ToJsonSerializable ==
    \E Data \in PureDataInputs :
        LET decoded == post_deser(Instance("Pure", <<Data>>)) IN
        /\ decoded.err = ""
        /\ last' = Call("to_json_serializable", Data,
                        to_json_serializable(decoded.val))
        /\ UNCHANGED <<kp, msig, weights, TypeTag_enums, stdout>>

\* Values of the catalog's classes.
Address(a) == Instance("BCSAddress", <<Fill(a, 32)>>)
Digest(d) == Instance("BCSDigest", <<Fill(d, 32)>>)

ObjectReferenceValue ==
    Instance("BCSObjectReference", <<Address(1), 7, Digest(2)>>)

SharedObjectReferenceValue ==
    Instance("BCSSharedObjectReference", <<Address(3), 300, TRUE>>)

TransferSuiValues ==
    {Instance("BCSTransferSui", <<Address(a), amount>>) :
        a \in {0, 9, 255},
        amount \in {Absent("BCSOptionalU64")}
                   \cup {Present("BCSOptionalU64", n) : n \in {0, 1000, 65536}}}

\* 0x2::sui::SUI with one type parameter
StructTagValue ==
    Instance("StructTag",
             <<Address(2), <<115, 117, 105>>, <<83, 85, 73>>,
               <<EnumInstance("TypeTag", 5, NoObject)>> >>)

TypeTagValues ==
    {EnumInstance("TypeTag", 0, TRUE), EnumInstance("TypeTag", 1, 200),
     EnumInstance("TypeTag", 2, 1000), EnumInstance("TypeTag", 4, Address(9)),
     EnumInstance("TypeTag", 5, NoObject), EnumInstance("TypeTag", 6, <<>>),
     EnumInstance("TypeTag", 6, <<EnumInstance("TypeTag", 1, 5),
                                  EnumInstance("TypeTag", 6, <<>>)>>),
     EnumInstance("TypeTag", 7, StructTagValue),
     EnumInstance("TypeTag", 8, 513), EnumInstance("TypeTag", 10, 77)}

ObjectArgValues ==
    {EnumInstance("ObjectArg", 0, ObjectReferenceValue),
     EnumInstance("ObjectArg", 1, SharedObjectReferenceValue)}

PureValues == {Instance("Pure", <<Data>>) : Data \in PureDataInputs}

CallArgValues ==
    {EnumInstance("CallArg", 0, pure) : pure \in PureValues}
    \cup {EnumInstance("CallArg", 1, object) : object \in ObjectArgValues}

GasDataValue ==
    Instance("GasData", <<<<ObjectReferenceValue>>, Address(4), 1000, 20000>>)

ArgumentValues ==
    {EnumInstance("Argument", 0, GasDataValue), EnumInstance("Argument", 1, 0),
     EnumInstance("Argument", 1, 258), EnumInstance("Argument", 2, 1),
     EnumInstance("Argument", 3, <<1, 512>>)}

CommandValues ==
    {EnumInstance("Command", 0,
         Instance("ProgrammableMoveCall",
                  <<Address(2), <<112, 97, 121>>, <<115, 112, 108, 105, 116>>,
                    <<EnumInstance("TypeTag", 7, StructTagValue)>>,
                    <<EnumInstance("Argument", 1, 0), EnumInstance("Argument", 2, 1)>> >>)),
     EnumInstance("Command", 1,
         Instance("TransferObjects",
                  <<<<EnumInstance("Argument", 2, 0)>>, EnumInstance("Argument", 1, 1)>>)),
     EnumInstance("Command", 2,
         Instance("SplitCoin",
                  <<EnumInstance("Argument", 0, GasDataValue),
                    EnumInstance("Argument", 1, 0)>>)),
     EnumInstance("Command", 3,
         Instance("MergeCoins",
                  <<EnumInstance("Argument", 1, 0),
                    <<EnumInstance("Argument", 3, <<1, 512>>)>> >>)),
     EnumInstance("Command", 4, Instance("Publish", <<<<<<1, 2>>, <<>>, <<3>>>>>>)),
     EnumInstance("Command", 5,
         Instance("MakeMoveVec",
                  <<Present("OptionalTypeTag", EnumInstance("TypeTag", 2, 1000)),
                    <<EnumInstance("Argument", 1, 0)>> >>)),
     EnumInstance("Command", 5,
         Instance("MakeMoveVec", <<Absent("OptionalTypeTag"), <<>> >>)),
     EnumInstance("Command", 6,
         Instance("Upgrade",
                  <<<<<<9>>>>, <<Address(5), Address(6)>>,
                    EnumInstance("Argument", 2, 0)>>))}

SomeCommand == CHOOSE command \in CommandValues : command.variant[1] = 1

\* Programmable transactions: empty, and one command over each input.
ProgrammableTransactionValues ==
    {Instance("ProgrammableTransaction", <<<<>>, <<>>>>)}
    \cup {Instance("ProgrammableTransaction", <<<<input>>, <<SomeCommand>>>>) :
             input \in CallArgValues}

TransactionKindValues ==
    {EnumInstance("TransactionKind", 0, pt) : pt \in ProgrammableTransactionValues}
    \cup {EnumInstance("TransactionKind", i, NoObject) : i \in 1..3}

\* The values a round trip is tried on, each with the name of its class.
RoundTripInputs ==
    UNION {{<<name, value>> : value \in values} :
               <<name, values>> \in
                   {<<"BCSTransferSui", TransferSuiValues>>,
                    <<"BCSObjectReference", {ObjectReferenceValue}>>,
                    <<"BCSSharedObjectReference", {SharedObjectReferenceValue}>>,
                    <<"GasData", {GasDataValue}>>,
                    <<"StructTag", {StructTagValue}>>,
                    <<"TypeTag", TypeTagValues>>,
                    <<"ObjectArg", ObjectArgValues>>,
                    <<"Pure", PureValues>>,
                    <<"CallArg", CallArgValues>>,
                    <<"Argument", ArgumentValues>>,
                    <<"Command", CommandValues>>,
                    <<"ProgrammableTransaction", ProgrammableTransactionValues>>,
                    <<"TransactionKind", TransactionKindValues>>}}

\* cls.deserialize(value.serialize())
RoundTrip ==
    \E input \in RoundTripInputs :
        LET cls == ClassNamed(input[1])
            encoded == Encode(cls, input[2])
        IN  /\ encoded \in Seq(0..255)    \* serialize has returned its bytes
            /\ last' = Call("round trip", <<input[1], input[2], encoded>>,
                            deserialize(cls, encoded))
            /\ UNCHANGED <<kp, msig, weights, TypeTag_enums, stdout>>

\* The classes that are tagged unions.
TaggedUnions ==
    {"TypeTag", "ObjectArg", "CallArg", "Argument", "Command", "TransactionKind",
     "TransactionData", "BCSSingleTransaction"}

\* Buffers from outside: a variant index (of one byte, and 300 in two) and
\* nothing, or a few bytes, after it.
BufferInputs ==
    {<<index>> \o rest : index \in {0, 1, 2, 4, 5, 7, 9, 11, 12, 127},
                         rest \in {<<>>, <<0>>, <<1, 2, 3>>}}
    \cup {<<172, 2>>, <<172, 2, 0>>, <<128>>}

\* cls.deserialize(in_data) of a tagged union, on a buffer from outside
Deserialize ==
    \E name \in TaggedUnions, in_data \in BufferInputs :
        /\ last' = Call("deserialize", <<name, in_data>>,
                        deserialize(ClassNamed(name), in_data))
        /\ UNCHANGED <<kp, msig, weights, TypeTag_enums, stdout>>

\* "0x" and the 64 hex digits of the 32 bytes a.
HexText(a) ==
    [prefix |-> "0x",
     digits |-> [i \in 1..64 |-> IF i % 2 = 1 THEN a \div 16 ELSE a % 16]]

\* The base58 text of the 32 bytes 00 .. 00 05: thirty-one '1' and '6'.
Base58Of05 == Fill(0, 31) \o <<5>>

\* The base58 text of the 32 bytes 00 .. 00 01 2C (300 = 5 * 58 + 10):
\* thirty '1', '6' and 'B'.
Base58Of012C == Fill(0, 30) \o <<5, 10>>

\* What from_generic_ref is called on: an ObjectRead, a GenericRef, and a
\* value that is neither and has none of their attributes.
RefInputs ==
    {[type |-> x[1], object_id |-> HexText(x[2]), version |-> x[3],
      digest |-> x[4]] :
        x \in {<<"ObjectRead", 1, 7, Base58Of05>>,
                <<"ObjectRead", 171, 300, Base58Of012C>>,
                <<"GenericRef", 1, 0, Base58Of012C>>,
                <<"GenericRef", 171, 7, Base58Of05>>,
                <<"NoneType", 0, 0, <<>>>>}}

\* BCSObjectReference.from_generic_ref(indata)
ObjectReferenceFromGenericRef ==
    \E indata \in RefInputs, checked \in BOOLEAN :
        LET r == BCSObjectReference_from_generic_ref(indata, checked) IN
        /\ last' = [op |-> "BCSObjectReference.from_generic_ref",
                    arg |-> indata, err |-> r.err, val |-> r.val,
                    calls |-> r.calls]
        /\ UNCHANGED <<kp, msig, weights, TypeTag_enums, stdout>>

\* BCSSharedObjectReference.from_generic_ref(indata)
SharedObjectReferenceFromGenericRef ==
    \E indata \in RefInputs, checked \in BOOLEAN :
        LET r == BCSSharedObjectReference_from_generic_ref(indata, checked) IN
        /\ last' = [op |-> "BCSSharedObjectReference.from_generic_ref",
                    arg |-> indata, err |-> r.err, val |-> r.val,
                    calls |-> r.calls]
        /\ UNCHANGED <<kp, msig, weights, TypeTag_enums, stdout>>

NextBCS ==
    \/ VariantForIndex
    \/ PostDeser
    \/ ToJsonSerializable
    \/ RoundTrip
    \/ Deserialize
    \/ ObjectReferenceFromGenericRef
    \/ SharedObjectReferenceFromGenericRef

SpecBCS == Init /\ [][NextBCS]_vars

--------------------------------------------------------------------------
(* The signature encoders on the (r, s) a nonce can give                   *)

\* b + 1, for a buffer whose last byte is below 255.
BytesInc(b) == [b EXCEPT ![Len(b)] = @ + 1]

\* r values.
SigRInputs == {Fill(1, 32), Fill(7, 32), Ramp(1, 32), Ramp(100, 32), Fill(255, 32)}

\* s values in 1..order-1: small ones, the ones around half the order (and,
\* for P-256, around the double that _s_max / 2 is), and large ones.
SigSInputs(scheme) ==
    LET order == IF scheme = SECP256R1 THEN CurveOrderR1 ELSE CurveOrderK1
        half == IF scheme = SECP256R1 THEN HalfOrderR1 ELSE HalfOrderK1
    IN  {Fill(0, 31) \o <<1>>, Fill(7, 32), Ramp(1, 32),
         SMaxHalfFloat, BytesInc(SMaxHalfFloat),
         BytesSub(half, Fill(0, 31) \o <<1>>), half, BytesInc(half),
         BytesInc(BytesInc(half)), <<200>> \o Fill(7, 31),
         BytesSub(order, Fill(0, 31) \o <<1>>)}

InitSig ==
    /\ kp = NoObject
    /\ msig = NoObject
    /\ weights = [bound |-> FALSE, val |-> <<>>]
    /\ TypeTag_enums = TypeTag_imported
    /\ stdout = <<>>
    /\ \E scheme \in {SECP256K1, SECP256R1}, r_int \in SigRInputs :
        \E s_int \in SigSInputs(scheme) :
            last = [op |-> "nonce", arg |-> <<scheme, r_int, s_int>>,
                    err |-> "", val |-> <<>>, calls |-> <<>>]

\* what sign returns for that (r, s): _sigencode_string for SECP256R1, the
\* compact form of libsecp256k1 for SECP256K1
SigEncode ==
    /\ last.op = "nonce"
    /\ last' = [last EXCEPT
                   !.op = "sign",
                   !.val = IF last.arg[1] = SECP256R1
                           THEN _sigencode_string(last.arg[2], last.arg[3])
                           ELSE ecdsa_serialize_compact(last.arg[2], last.arg[3])]
    /\ UNCHANGED <<kp, msig, weights, TypeTag_enums, stdout>>

SpecSig == InitSig /\ [][SigEncode]_vars

--------------------------------------------------------------------------
Next ==
    \/ NewPrivateKey
    \/ NewPublicKey
    \/ NewKeyPair
    \/ FromBytes
    \/ FromB64
    \/ FromKeystring
    \/ Reload
    \/ CreateNewKeypair
    \/ CreateNewAddress
    \/ SignSecure
    \/ NewSignSecure
    \/ Serialize
    \/ ToBytes

Spec == Init /\ [][Next]_vars

--------------------------------------------------------------------------
(* Properties of the key and keypair calls                                 *)

\* The bytes base64 text stands for (the text decodes).
Decoded(text) == B64Decode(text).val

\* C1: sign_secure on base64 transaction text returns one byte, the private
\* key's scheme tag, then the 64 bytes of the scheme's signature over 0,0,0
\* followed by the decoded transaction, then the bytes of the public key it
\* was given, in that order; new_sign_secure returns the base64 text of the
\* same bytes built with the keypair's own public key.
C1_SignSecureLayout ==
    /\ (last.op = "sign_secure" /\ B64Decode(last.arg[2]).err = "") =>
        LET sig == PrivateKey_sign(kp.private_key,
                                   <<0, 0, 0>> \o Decoded(last.arg[2]))
            pub == last.arg[1].key_bytes
        IN  /\ last.err = ""
            /\ Len(sig) = 64
            /\ Len(last.val) = 1 + 64 + Len(pub)
            /\ last.val[1] = kp.private_key.scheme
            /\ SubSeq(last.val, 2, 65) = sig
            /\ SubSeq(last.val, 66, Len(last.val)) = pub
    /\ (last.op = "new_sign_secure" /\ B64Decode(last.arg).err = "") =>
        LET sig == PrivateKey_sign(kp.private_key,
                                   <<0, 0, 0>> \o Decoded(last.arg))
        IN  /\ last.err = ""
            /\ B64Decode(last.val).err = ""
            /\ Decoded(last.val) =
                   <<kp.scheme>> \o sig \o kp.public_key.key_bytes
            /\ last.val = B64Encode(Decoded(last.val))

\* A SECP256R1 key has signed a transaction of two bytes for a public key
\* that is not its own.
C1_Witness ==
    /\ last.op = "sign_secure"
    /\ last.err = ""
    /\ kp.scheme = SECP256R1
    /\ last.arg[1] # kp.public_key
    /\ Len(Decoded(last.arg[2])) = 2

\* C2: the keystring of a keypair is the base64 text of its scheme tag byte
\* followed by its private key bytes, and keypair_from_keystring of that
\* keystring returns a keypair of the same scheme with the same private and
\* public key bytes.
C2_KeystringRoundTrip ==
    /\ last.op = "serialize" =>
        /\ last.err = ""
        /\ Len(last.val) = 44
        /\ B64Decode(last.val).err = ""
        /\ Decoded(last.val) = <<kp.scheme>> \o kp.private_key.key_bytes
        /\ last.val = B64Encode(Decoded(last.val))
    /\ last.op = "reload" =>
        /\ last.err = ""
        /\ last.val.scheme = last.arg.scheme
        /\ last.val.private_key.key_bytes = last.arg.private_key.key_bytes
        /\ last.val.public_key.key_bytes = last.arg.public_key.key_bytes
        /\ kp = last.val

\* A SECP256K1 keypair has been reloaded from its own keystring.
C2_Witness ==
    /\ last.op = "reload"
    /\ last.err = ""
    /\ last.arg.scheme = SECP256K1
    /\ kp.cls = "SuiKeyPairSECP256K1"

\* The private key length of the scheme a tag byte names.
PrivateLenOfTag(tag) == 32

\* A keystring that decodes, to a known tag byte followed by a number of
\* bytes that is not the scheme's private key length.
WrongDecodedLength(keystring) ==
    LET d == B64Decode(keystring) IN
    /\ d.err = ""
    /\ d.val # <<>>
    /\ d.val[1] \in KeyPairSchemes
    /\ Len(d.val) # 1 + PrivateLenOfTag(d.val[1])

\* C3 as first stated: every keystring whose decoded length is not 1 + the
\* private key length of its scheme is refused with SuiInvalidKeystringLength.
C3_AsStated ==
    (last.op = "keypair_from_keystring" /\ WrongDecodedLength(last.arg)) =>
        /\ last.err = "SuiInvalidKeystringLength"
        /\ last.val = NoObject

\* C3: keypair_from_keystring refuses every keystring whose base64 text is
\* not 44 characters long with SuiInvalidKeystringLength, whatever its tag
\* byte and whether or not it decodes (the test comes before the decoding
\* and the dispatch); a keystring of 44 characters whose decoded length is
\* not 1 + the private key length of its scheme is refused too, by the
\* scheme's from_bytes after the dispatch, with SuiInvalidKeyPair; in both
\* cases no keypair is returned and the held keypair is not replaced.
C3_KeystringLength ==
    last.op = "keypair_from_keystring" =>
        /\ Len(last.arg) # 44 =>
            /\ last.err = "SuiInvalidKeystringLength"
            /\ last.val = NoObject
        /\ WrongDecodedLength(last.arg) =>
            /\ last.err = IF Len(last.arg) = 44 THEN "SuiInvalidKeyPair"
                          ELSE "SuiInvalidKeystringLength"
            /\ last.val = NoObject

\* A keystring of 44 characters that decodes to a tag and 31 bytes has been
\* refused by from_bytes.
C3_Witness ==
    /\ last.op = "keypair_from_keystring"
    /\ Len(last.arg) = 44
    /\ WrongDecodedLength(last.arg)
    /\ Len(Decoded(last.arg)) = 32
    /\ last.err = "SuiInvalidKeyPair"

\* C4: keypair_from_keystring on a keystring of the right length (44
\* characters decoding to 33 bytes) whose tag byte is not 0, 1 or 2 (the
\* MULTISIG tag 3 included) fails with NotImplementedError, the code's
\* unknown-scheme error, and returns no keypair; for the tags 0, 1 and 2 it
\* answers as the from_bytes of the keypair class of that scheme does on the
\* 32 bytes after the tag, and a keypair it returns is of that class and
\* scheme.
C4_KeystringDispatch ==
    (/\ last.op = "keypair_from_keystring"
     /\ Len(last.arg) = 44
     /\ B64Decode(last.arg).err = ""
     /\ Len(Decoded(last.arg)) = 33) =>
        LET tag == Decoded(last.arg)[1]
            key == SubSeq(Decoded(last.arg), 2, 33)
        IN  /\ tag \notin {0, 1, 2} =>
                /\ last.err = "NotImplementedError"
                /\ last.val = NoObject
            /\ tag \in {0, 1, 2} =>
                /\ last.err = KeyPairClass_from_bytes(tag, key).err
                /\ last.val = KeyPairClass_from_bytes(tag, key).val
                /\ last.err = "" =>
                    /\ last.val.scheme = tag
                    /\ last.val.cls =
                           <<"SuiKeyPairED25519", "SuiKeyPairSECP256K1",
                             "SuiKeyPairSECP256R1">>[tag + 1]

\* A keystring with tag 2 has given a SECP256R1 keypair.
C4_Witness ==
    /\ last.op = "keypair_from_keystring"
    /\ last.err = ""
    /\ Decoded(last.arg)[1] = 2
    /\ last.val.cls = "SuiKeyPairSECP256R1"

\* C5: a private or public key built from a buffer whose length is not the
\* scheme's (private 32 for the three schemes; public 32 for ED25519, 33 for
\* SECP256K1 and SECP256R1) fails with SuiInvalidKeyPair and gives no key
\* object; a buffer of the right length is not refused with that error.
C5_KeyLengths ==
    /\ last.op = "PrivateKey" =>
        /\ Len(last.arg[2]) # 32 =>
            last.err = "SuiInvalidKeyPair" /\ last.val = NoObject
        /\ Len(last.arg[2]) = 32 => last.err # "SuiInvalidKeyPair"
    /\ last.op = "PublicKey" =>
        LET want == IF last.arg[1] = ED25519 THEN 32 ELSE 33 IN
        /\ Len(last.arg[2]) # want =>
            last.err = "SuiInvalidKeyPair" /\ last.val = NoObject
        /\ Len(last.arg[2]) = want => last.err # "SuiInvalidKeyPair"

\* A SECP256K1 public key of 32 bytes has been refused.
C5_Witness ==
    /\ last.op = "PublicKey"
    /\ last.arg[1] = SECP256K1
    /\ Len(last.arg[2]) = 32
    /\ last.err = "SuiInvalidKeyPair"

\* The public key bytes of a scheme for private key bytes.
DerivedPublicBytes(scheme, private_bytes) ==
    IF scheme = ED25519 THEN Ed25519VerifyKey(private_bytes)
    ELSE EcCompressedPublicKey(scheme, private_bytes)

\* C6: every keypair object, whichever call built it (a constructor,
\* from_bytes, from_b64, keypair_from_keystring, create_new_keypair), has one
\* scheme for the keypair, its private key and its public key, and its
\* public key bytes are the scheme's derivation of its private key bytes.
C6_KeyPairConsistent ==
    LET Consistent(k) ==
            /\ k.scheme \in KeyPairSchemes
            /\ k.private_key.scheme = k.scheme
            /\ k.public_key.scheme = k.scheme
            /\ k.public_key.key_bytes =
                   DerivedPublicBytes(k.scheme, k.private_key.key_bytes)
    IN  /\ kp # NoObject => Consistent(kp)
        /\ (last.op \in {"KeyPair", "from_bytes", "from_b64",
                         "keypair_from_keystring", "reload"} /\ last.err = "")
               => Consistent(last.val)
        /\ (last.op = "create_new_keypair" /\ last.err = "")
               => Consistent(last.val.keypair)

\* SuiKeyPairSECP256K1.from_b64 has returned a keypair.
C6_Witness ==
    /\ last.op = "from_b64"
    /\ last.arg[1] = SECP256K1
    /\ last.err = ""
    /\ kp = last.val
    /\ kp.scheme = SECP256K1

--------------------------------------------------------------------------
(* Properties of the multisig calls                                        *)

\* The calls the contract refuses: no key or more than 10, keys and weights
\* that differ in number, a threshold above the number of keys.
MustFail(pk_keys, pk_weights, threshold) ==
    \/ Len(pk_keys) = 0
    \/ Len(pk_keys) > 10
    \/ Len(pk_keys) # Len(pk_weights)
    \/ threshold > Len(pk_keys)

\* C7: constructing a MultiSigPublicKey fails, and gives no object, whenever
\* there is no key or there are more than 10, or the keys and the weights
\* differ in number, or the threshold is above the number of keys.
C7_AsStated ==
    (/\ last.op = "MultiSigPublicKey"
     /\ MustFail(last.arg[1], last.arg[2], last.arg[3])) =>
        /\ last.err # ""
        /\ last.val = NoObject
        /\ msig = NoObject

\* A call with 1 to 10 keys, as many weights, and a threshold from 1 to the
\* number of keys.
WellFormed(pk_keys, pk_weights, threshold) ==
    /\ Len(pk_keys) \in 1..10
    /\ Len(pk_keys) = Len(pk_weights)
    /\ threshold \in 1..Len(pk_keys)

\* The pairs (pk_keys[i], pk_weights[i]) in order.
PairsOf(pk_keys, pk_weights) ==
    [i \in 1..Len(pk_keys) |-> <<pk_keys[i], pk_weights[i]>>]

\* C8: a call MultiSigPublicKey(pk_keys, pk_weights, threshold) that the
\* constructor accepts (here: a well-formed call) gives an object of scheme
\* MULTISIG with that threshold whose key_map is the pairs
\* (pk_keys[i], pk_weights[i]) in order, built from the pk_weights of the
\* call.
C8_AsStated ==
    (/\ last.op = "MultiSigPublicKey"
     /\ WellFormed(last.arg[1], last.arg[2], last.arg[3])) =>
        /\ last.err = ""
        /\ msig = last.val
        /\ msig.scheme = 3
        /\ msig.threshold = last.arg[3]
        /\ msig.key_map = PairsOf(last.arg[1], last.arg[2])

\* The bytes of the pairs i.. of a key map: for each, the key's scheme tag,
\* the key's bytes, the weight.
RECURSIVE PairBytes(_, _)
PairBytes(key_map, i) ==
    IF i > Len(key_map) THEN <<>>
    ELSE <<key_map[i][1].scheme>> \o key_map[i][1].key_bytes
         \o <<key_map[i][2]>> \o PairBytes(key_map, i + 1)

\* C9: _msta feeds the hash the multisig scheme tag (one byte), the
\* threshold (one byte), then for each (public key, weight) pair of key_map
\* in order the key's scheme tag byte, the key's bytes and the weight (one
\* byte), and nothing else; it returns the lowercase hex text, 40
\* characters, of the first 20 bytes of the SHA3-256 digest of these bytes.
\* (It returns whenever the threshold and the weights are in 0..255.)
C9_AddressInput ==
    last.op = "_msta" =>
        LET want == <<3, msig.threshold>> \o PairBytes(msig.key_map, 1) IN
        /\ last.arg = msig
        /\ (msig.threshold \in 0..255
            /\ \A i \in 1..Len(msig.key_map) : msig.key_map[i][2] \in 0..255)
               => last.err = ""
        /\ last.err = "" =>
            /\ last.fed = want
            /\ last.val = [hex_of |-> [digest_of |-> want, len |-> 20],
                           chars |-> 40, case |-> "lower"]

\* The address of a multisig of two keys of different schemes has been
\* computed.
C9_Witness ==
    /\ last.op = "_msta"
    /\ last.err = ""
    /\ Len(msig.key_map) = 2
    /\ msig.key_map[1][1].scheme # msig.key_map[2][1].scheme
    /\ msig.threshold = 1

\* The keys of a key map, in order, and its weights.
KeysOf(key_map) == [i \in 1..Len(key_map) |-> key_map[i][1]]
WeightsOf(key_map) == [i \in 1..Len(key_map) |-> key_map[i][2]]

\* b is a in another order: b[i] = a[p[i]] for a permutation p.
Reordered(a, b) ==
    /\ Len(a) = Len(b)
    /\ \E p \in Permutations(1..Len(a)) : \A i \in 1..Len(a) : b[i] = a[p[i]]

\* C10: two multisig objects with the same keys and weights in the same
\* order and the same threshold have the same address; two with the same
\* threshold whose distinct keys are the same in another order, with the
\* same weights (the pairs reordered, or the keys reordered under the
\* weights), give the hash different bytes and so have different addresses.
C10_OrderSensitive ==
    last.op = "_msta pair" =>
        LET m1 == last.arg[1]
            m2 == last.arg[2]
            r1 == last.val[1]
            r2 == last.val[2]
        IN  /\ r1.err = "" /\ r2.err = ""
            /\ r1.val.chars = 40 /\ r2.val.chars = 40
            /\ (m1.key_map = m2.key_map /\ m1.threshold = m2.threshold)
                   => r1.val = r2.val
            /\ (/\ m1.threshold = m2.threshold
                /\ KeysOf(m1.key_map) # KeysOf(m2.key_map)
                /\ Reordered(KeysOf(m1.key_map), KeysOf(m2.key_map))
                /\ Reordered(WeightsOf(m1.key_map), WeightsOf(m2.key_map)))
                   => (r1.fed # r2.fed /\ r1.val # r2.val)

\* The addresses of two multisigs whose pairs are each other's in the
\* opposite order have been computed.
C10_Witness ==
    /\ last.op = "_msta pair"
    /\ Len(last.arg[1].key_map) = 2
    /\ last.arg[1].threshold = last.arg[2].threshold
    /\ last.arg[2].key_map =
           <<last.arg[1].key_map[2], last.arg[1].key_map[1]>>
    /\ last.arg[1].key_map[1][2] # last.arg[1].key_map[2][2]
    /\ last.val[1].val # last.val[2].val

--------------------------------------------------------------------------
(* Properties of the signature encoders                                    *)

\* C14: the s of the 64 bytes sign returns for a SECP256K1 or SECP256R1 key
\* is at most half the curve order (the floor of order / 2); for SECP256R1
\* it is order - s exactly when the nonce's s is above half the order and s
\* itself otherwise, and r is the nonce's r.
C14_AsStated ==
    last.op = "sign" =>
        LET scheme == last.arg[1]
            r_in == last.arg[2]
            s_in == last.arg[3]
            order == IF scheme = SECP256R1 THEN CurveOrderR1 ELSE CurveOrderK1
            half == IF scheme = SECP256R1 THEN HalfOrderR1 ELSE HalfOrderK1
            r_out == SubSeq(last.val, 1, 32)
            s_out == SubSeq(last.val, 33, 64)
        IN  /\ Len(last.val) = 64
            /\ r_out = r_in
            /\ ~BytesLess(half, s_out)
            /\ scheme = SECP256R1 =>
                   s_out = IF BytesLess(half, s_in) THEN BytesSub(order, s_in)
                           ELSE s_in

--------------------------------------------------------------------------
(* Properties of from_b64                                                  *)

\* C19: from_b64 of a keypair class on a keystring of the right length (44
\* characters that decode to a tag byte and 32 bytes of a usable private
\* key) returns a keypair of that class's own scheme when the tag byte is
\* the class's scheme, and raises SuiInvalidKeyPair when it is not; the
\* scheme of a returned keypair is the tag byte.
C19_AsStated ==
    (/\ last.op = "from_b64"
     /\ Len(last.arg[2]) = SUI_KEYPAIR_LEN
     /\ B64Decode(last.arg[2]).err = ""
     /\ Len(Decoded(last.arg[2])) = 33
     /\ Rest(Decoded(last.arg[2])) \in GoodSecrets) =>
        LET K == last.arg[1]
            tag == Decoded(last.arg[2])[1]
        IN  IF tag = K
            THEN /\ last.err = ""
                 /\ last.val.scheme = K
                 /\ last.val.scheme = tag
                 /\ last.val.private_key.key_bytes = Rest(Decoded(last.arg[2]))
            ELSE /\ last.err = "SuiInvalidKeyPair"
                 /\ last.val = NoObject

--------------------------------------------------------------------------
(* Properties of key generation                                            *)

\* C15: in create_new_keypair, create_new_address and
\* recover_key_and_address for one of the three schemes, a supplied phrase
\* is validated before the derivation provider is called: with an invalid
\* phrase the call raises ValueError, no provider call has been made and no
\* keypair is returned; with a valid or a missing phrase the provider is
\* called, and private key bytes that are not 32 long end the call with an
\* error and no keypair; a returned keypair holds the provider's 32 bytes
\* and comes with the phrase that was supplied.
C15_MnemonicFirst ==
    (/\ last.op \in {"create_new_keypair", "create_new_address",
                     "recover_key_and_address"}
     /\ last.arg[1] \in KeyPairSchemes) =>
        LET mnemonics == last.arg[2]
            prv_key == last.arg[3]
        IN  IF mnemonics # "" /\ mnemonics \notin ValidMnemonics
            THEN /\ last.err = "ValueError"
                 /\ last.calls = <<>>
                 /\ last.val = NoObject
            ELSE /\ last.calls = ProviderCalls
                 /\ Len(prv_key) # 32 =>
                        /\ last.err # ""
                        /\ last.val = NoObject
                 /\ last.err = "" =>
                        /\ last.val.keypair.scheme = last.arg[1]
                        /\ last.val.keypair.private_key.key_bytes = prv_key
                        /\ Len(last.val.keypair.private_key.key_bytes) = 32
                        /\ mnemonics # "" => last.val.mnemonic = mnemonics
                        /\ kp = last.val.keypair

\* recover_key_and_address has refused a phrase that is not a mnemonic, for
\* a SECP256R1 key and a provider that would have answered 31 bytes.
C15_Witness ==
    /\ last.op = "recover_key_and_address"
    /\ last.arg = <<SECP256R1, "not a phrase", Fill(7, 31)>>
    /\ last.err = "ValueError"
    /\ last.calls = <<>>

--------------------------------------------------------------------------
(* Properties of the calls that only read                                  *)

\* C16: a call of sign, sign_secure, new_sign_secure, serialize, to_bytes or
\* _msta leaves the keypair (the scheme and bytes of its private and public
\* key) and the multisig object (its threshold and its ordered list of key
\* and weight) as they were built, and writes nothing outside its
\* arguments: not the module's `weights`, not TypeTag's variants, not the
\* standard output.
C16_AsStated ==
    [][/\ kp' = kp
       /\ msig' = msig
       /\ weights' = weights
       /\ TypeTag_enums' = TypeTag_enums
       /\ stdout' = stdout]_vars

--------------------------------------------------------------------------
(* Properties of TypeTag's variants                                        *)

\* The names of TypeTag's variants, in the declared order.
TypeTagNames ==
    <<"Bool", "U8", "U64", "U128", "Address", "Signer", "Vector", "Struct",
      "U16", "U32", "U256">>

\* C17: TypeTag has 11 variants at every moment, with the names Bool, U8,
\* U64, U128, Address, Signer, Vector, Struct, U16, U32, U256 in that
\* order; once the module is imported variant 6 carries a sequence of
\* TypeTag, variant 7 a StructTag, and the nine others what the class body
\* declares; and a call update_value_at(i, v) that returns has replaced the
\* payload type at index i (counted from the end when i is negative) by v
\* and changed nothing else, while a call that raises IndexError has changed
\* nothing.
C17_LateBinding ==
    /\ [](/\ Len(TypeTag_enums) = 11
          /\ \A i \in 1..11 : TypeTag_enums[i][1] = TypeTagNames[i]
          /\ last.op = "imported" =>
                /\ TypeTag_enums[7][2] = ListT(Class("TypeTag"))
                /\ TypeTag_enums[8][2] = Class("StructTag")
                /\ \A i \in (1..11) \ {7, 8} :
                       TypeTag_enums[i] = TypeTag_class_enums[i])
    /\ [][last'.op = "update_value_at" =>
              LET index == last'.arg[1]
                  at == IF index < 0 THEN index + 12 ELSE index + 1
              IN  IF last'.err = ""
                  THEN /\ at \in 1..11
                       /\ Len(TypeTag_enums') = Len(TypeTag_enums)
                       /\ TypeTag_enums'[at] = <<TypeTag_enums[at][1], last'.arg[2]>>
                       /\ \A i \in (1..11) \ {at} :
                              TypeTag_enums'[i] = TypeTag_enums[i]
                  ELSE /\ last'.err = "IndexError"
                       /\ at \notin 1..11
                       /\ TypeTag_enums' = TypeTag_enums]_vars

\* After the import, update_value_at(-1, None) has taken U256's payload
\* away and a second call has given Bool the payload StructTag.
C17_Witness ==
    /\ last.op = "update_value_at"
    /\ last.calls = << <<-1, None>>, <<0, Class("StructTag")>> >>
    /\ TypeTag_enums[11] = <<"U256", None>>
    /\ TypeTag_enums[1] = <<"Bool", Class("StructTag")>>
    /\ TypeTag_enums[7] = <<"Vector", ListT(Class("TypeTag"))>>

--------------------------------------------------------------------------
(* Properties of the classes of bcs.py                                     *)

\* C18: variant_for_index(index) of BCSSingleTransaction (9 variants) and of
\* TransactionData (1 variant) returns the pair of name and payload type
\* declared at position index when 0 <= index < the number of variants, and
\* raises IndexError for every other index: every index at or above the
\* number of variants and every negative one.
C18_AsStated ==
    last.op = "variant_for_index" =>
        LET cls == ClassNamed(last.arg[1])
            index == last.arg[2]
        IN  IF 0 <= index /\ index < Len(cls._enums)
            THEN /\ last.err = ""
                 /\ last.val = cls._enums[index + 1]
            ELSE /\ last.err = "IndexError"
                 /\ last.val = NoObject


\* The c chunks of a payload whose length c divides, as numbers.
ChunkValues(payload, c) ==
    LET w == Len(payload) \div c IN
    [i \in 1..c |-> LittleEndian(SubSeq(payload, (i - 1) * w + 1, i * w))]

\* C20: post_deser on a Pure whose Data is a count c >= 1 followed by a
\* payload whose length c divides sets count to c and values to the c
\* numbers read little-endian from the c consecutive chunks of
\* len(payload) / c bytes, each over all of its bytes, in payload order, and
\* leaves Data as it was.
C20_AsStated ==
    (/\ last.op = "post_deser"
     /\ last.arg # <<>>
     /\ last.arg[1] >= 1
     /\ Len(Tail(last.arg)) % last.arg[1] = 0) =>
        /\ last.err = ""
        /\ last.val.fields = <<last.arg>>
        /\ last.val.attrs =
               << <<"count", last.arg[1]>>,
                  <<"values", ChunkValues(Tail(last.arg), last.arg[1])>> >>


\* C11: a BCSTransferSui of a 32-byte recipient and an optional amount
\* encodes to the 32 bytes of the recipient followed by the byte 0 when the
\* amount is absent (33 bytes in all), and followed by the byte 1 and the
\* 8 bytes of the amount, least significant first, when it is present (41
\* bytes in all; E8 03 00 00 00 00 00 00 for 1000); nothing else is on the
\* wire: no tag, no field name, no length, no padding.
C11_TransferSuiWire ==
    (last.op = "round trip" /\ last.arg[1] = "BCSTransferSui") =>
        LET recipient == last.arg[2].fields[1].fields[1]
            amount == last.arg[2].fields[2].value
            wire == last.arg[3]
        IN  /\ Len(recipient) = 32
            /\ SubSeq(wire, 1, 32) = recipient
            /\ IF amount = <<>>
               THEN /\ Len(wire) = 33
                    /\ wire[33] = 0
               ELSE /\ Len(wire) = 41
                    /\ wire[33] = 1
                    /\ wire[34] = amount[1] % 256
                    /\ wire[35] = (amount[1] \div 256) % 256
                    /\ wire[36] = (amount[1] \div 65536) % 256
                    /\ wire[37] = (amount[1] \div 16777216) % 256
                    /\ SubSeq(wire, 38, 41) = <<0, 0, 0, 0>>
                    /\ amount[1] = 1000 =>
                           SubSeq(wire, 34, 41) = <<232, 3, 0, 0, 0, 0, 0, 0>>

\* A transfer of 1000 to the address of 32 bytes 9 has been encoded, to 41
\* bytes.
C11_Witness ==
    /\ last.op = "round trip"
    /\ last.arg[1] = "BCSTransferSui"
    /\ last.arg[2].fields[1].fields[1] = Fill(9, 32)
    /\ last.arg[2].fields[2].value = <<1000>>
    /\ Len(last.arg[3]) = 41


\* The number of variants each tagged union declares.
DeclaredVariants(name) ==
    CASE name = "TypeTag" -> 11
      [] name = "ObjectArg" -> 2
      [] name = "CallArg" -> 2
      [] name = "Argument" -> 4
      [] name = "Command" -> 7
      [] name = "TransactionKind" -> 4
      [] name = "TransactionData" -> 1
      [] name = "BCSSingleTransaction" -> 9

\* C13: decoding a buffer as one of the tagged unions TypeTag (11
\* variants), ObjectArg (2), CallArg (2), Argument (4), Command (7),
\* TransactionKind (4), TransactionData (1) or BCSSingleTransaction (9)
\* fails with the unknown-variant error, and returns no value, when the
\* ULEB128 variant index the buffer starts with is at or above the number
\* of variants the class declares, whatever follows the index.
C13_UnknownVariant ==
    (last.op = "deserialize" /\ Uleb128Decode(last.arg[2], 1, 1, 0).err = "") =>
        LET index == Uleb128Decode(last.arg[2], 1, 1, 0).val IN
        /\ Len(ClassNamed(last.arg[1])._enums) = DeclaredVariants(last.arg[1])
        /\ index >= DeclaredVariants(last.arg[1]) =>
               /\ last.err = "UnknownVariantError"
               /\ last.val = NoObject

\* A Command has been decoded from the index 7, the first that names no
\* variant, followed by three bytes, and refused.
C13_Witness ==
    /\ last.op = "deserialize"
    /\ last.arg = <<"Command", <<7, 1, 2, 3>>>>
    /\ last.err = "UnknownVariantError"
    /\ last.val = NoObject


RECURSIVE Declared(_, _)
RECURSIVE DeclaredItems(_, _)
RECURSIVE DeclaredEach(_, _)

DeclaredItems(atype, items) ==
    IF items = <<>> THEN <<>>
    ELSE <<Declared(atype, Head(items))>> \o DeclaredItems(atype, Tail(items))

DeclaredEach(types, values) ==
    IF types = <<>> THEN <<>>
    ELSE <<Declared(Head(types), Head(values))>>
             \o DeclaredEach(Tail(types), Tail(values))

\* A value as its schema declares it: the fields and payloads, without the
\* attributes a decoder has set besides them.
Declared(t, v) ==
    CASE t.k \in {"None", "int", "bool", "str"} -> v
      [] t.k = "array" -> DeclaredItems(t.atype, v)
      [] t.k = "tuple" -> DeclaredEach(t.types, v)
      [] t.k = "class" -> Declared(ClassNamed(t.name), v)
      [] t.k = "struct" -> Instance(t.name, DeclaredEach(FieldTypes(t), v.fields))
      [] t.k = "enum" ->
            EnumInstance(t.name, v.variant[1],
                         Declared(t._enums[v.variant[1] + 1][2], v.variant[2]))
      [] t.k = "optional" ->
            IF v.value = <<>> THEN v
            ELSE Present(t.name, Declared(t._type, v.value[1]))

\* C12: for every value of a class of the catalog (a CallArg holding a Pure
\* among them, decoded through Pure's own decode), decoding the bytes the
\* value encodes to succeeds, gives a value equal to it in every declared
\* field, and that value encodes to the same bytes again.
C12_AsStated ==
    last.op = "round trip" =>
        LET cls == ClassNamed(last.arg[1]) IN
        /\ last.err = ""
        /\ Declared(cls, last.val) = last.arg[2]
        /\ Encode(cls, last.val) = last.arg[3]


\* C21: for every Pure whose Data is a non-empty byte list, post_deser
\* completes without raising and sets both the count and the values
\* attributes, and to_json_serializable afterwards returns a dict with both
\* 'count' and 'values': neither fails on a zero count, on a payload length
\* the count does not divide, or on a missing attribute.
C21_AsStated ==
    /\ (last.op = "post_deser" /\ last.arg # <<>>) =>
           /\ last.err = ""
           /\ getattr(last.val, "count").err = ""
           /\ getattr(last.val, "values").err = ""
    /\ (last.op = "to_json_serializable" /\ last.arg # <<>>) =>
           /\ last.err = ""
           /\ DOMAIN last.val = {"count", "values"}


\* C22: every MultiSigPublicKey the constructor accepts has a derivable
\* address: _msta on it completes without error, because the constructor
\* rejects a threshold or a weight that is negative or over 255.
C22_AsStated ==
    /\ last.op = "_msta" => last.err = ""
    /\ (/\ last.op = "MultiSigPublicKey"
        /\ \/ last.arg[3] \notin 0..255
           \/ \E i \in 1..Len(last.arg[2]) : last.arg[2][i] \notin 0..255)
           => (last.err # "" /\ msig = NoObject)


\* C23: the from_generic_ref constructors build values that conform to
\* their own schema.  BCSObjectReference.from_generic_ref returns (ObjectID
\* address, SequenceNumber u64, ObjectDigest digest) for an ObjectRead and
\* raises ValueError for any other input; BCSSharedObjectReference's returns
\* a value whose three fields are (ObjectID address, SequenceNumber u64,
\* Mutable boolean), the third a boolean and not a digest.
C23_AsStated ==
    /\ (/\ last.op = "BCSObjectReference.from_generic_ref"
        /\ last.arg.type = "ObjectRead") =>
           /\ last.err = ""
           /\ last.calls =
                  << <<"BCSObjectReference", <<"BCSAddress", "int", "BCSDigest">> >> >>
           /\ last.val.cls = "BCSObjectReference"
           /\ last.val.fields[1].cls = "BCSAddress"
           /\ Len(last.val.fields[1].fields[1]) = _BCS_ADDRESS_LENGTH
           /\ last.val.fields[2] = last.arg.version
           /\ last.val.fields[3].cls = "BCSDigest"
           /\ Len(last.val.fields[3].fields[1]) = _BCS_DIGEST_LENGTH
    /\ (/\ last.op = "BCSObjectReference.from_generic_ref"
        /\ last.arg.type # "ObjectRead") =>
           /\ last.err = "ValueError"
           /\ last.val = NoObject
    /\ (/\ last.op = "BCSSharedObjectReference.from_generic_ref"
        /\ HasRefAttributes(last.arg)) =>
           /\ last.err = ""
           /\ last.calls =
                  << <<"BCSSharedObjectReference", <<"BCSAddress", "int", "bool">> >> >>
           /\ last.val.cls = "BCSSharedObjectReference"
           /\ last.val.fields[2] = last.arg.version

=============================================================================
